---- MODULE Spec2Model ----
(***************************************************************************)
(* Cycle-accurate model of the Cynthion USB analyzer gateware:             *)
(*   - USBAnalyzer (analyzer.py): capture FSM, match pipeline, sequence    *)
(*     FSM, buffer write FSM and ring-buffer read side;                    *)
(*   - USBAnalyzerVendorRequestHandler (top.py): the vendor request FSM    *)
(*     and the trigger configuration registers it writes.                  *)
(*                                                                         *)
(* Clocking.  The "sync" domain runs at twice the "usb" domain clock       *)
(* (SYNC_CLOCK_FREQUENCY = 120e6, USB_CLOCK_FREQUENCY = 60e6) and the two  *)
(* are edge aligned.  One usb cycle is two sync cycles: SyncEdge is the    *)
(* sync clock edge in the middle of a usb cycle (phase 0 -> 1), UsbEdge is *)
(* the coincident sync+usb edge that ends it (phase 1 -> 0).  Input        *)
(* signals are variables the environment sets right after the edge, as    *)
(* the test benches do.  Every register keeps the bit width it has in the  *)
(* source (arithmetic is taken modulo 2^width).                            *)
(***************************************************************************)
EXTENDS Integers, Sequences, FiniteSets, TLC

\* ------------------------------------------------------------------ bounds
AddrBits == 3          \* log2 of the ring buffer depth of the small analyzer
MaxTicks == 7          \* usb cycles explored in the capture specification
MaxTrigTicks == 10     \* usb cycles explored in the trigger specifications
MaxCtlTicks == 7       \* usb cycles explored in the control specification
MaxStageTicks == 7     \* usb cycles explored in the stage-table specification
MaxBabbleTicks == 1033 \* usb cycles explored in the babble specification
MaxFireTicks == 7      \* usb cycles explored in the firing specification
MaxRoundTicks == 76    \* usb cycles explored in the round-trip specification
MaxClaimTicks == 4     \* usb cycles explored in the request-claim specification
MaxIdleTicks == 8      \* usb cycles explored from each start of the idle specification
IdleLead == 3          \* idle cycles left before the timestamp wrap at the late start
MaxWrapTicks == 60     \* usb cycles explored in the fire-counter specification
ResetLatency == 1      \* usb cycles granted to a sequence reset to take effect

\* ------------------------------------------------------- program constants
TRIGGER_MAX_STAGES == 8
TRIGGER_MAX_PATTERN_BYTES == 32
TRIGGER_CONTROL_PAYLOAD_LEN == 2
TRIGGER_STAGE_PAYLOAD_LEN == 68
TRIGGER_STATUS_PAYLOAD_LEN == 5
HEADER_SIZE_BYTES == 4
HEADER_SIZE_WORDS == 2
EVENT_SIZE_BYTES == 4
EVENT_SIZE_WORDS == 2
MAX_PACKET_SIZE_BYTES == 1027
DefaultMemDepth == 4096

\* USBAnalyzerEvent codes and USBAnalyzerSpeed.AUTO (events.py / speeds.py).
EVENT_NONE == 0
CAPTURE_STOP_NORMAL == 1
CAPTURE_START_BASE == 4
TRIGGER_FIRED == 5
SPEED_AUTO == 2

\* USBAnalyzerVendorRequests
GET_STATE == 0
SET_STATE == 1
GET_SPEEDS == 2
SET_TEST_CONFIG == 3
GET_MINOR_VERSION == 4
GET_TRIGGER_CAPS == 5
SET_TRIGGER_CONTROL == 6
SET_TRIGGER_STAGE == 7
GET_TRIGGER_STATUS == 9
ARM_TRIGGER == 10
DISARM_TRIGGER == 11
GET_TRIGGER_STAGE == 12

\* ------------------------------------------------------------ bit helpers
RECURSIVE BitAndN(_, _, _)
BitAndN(a, b, n) ==
  IF n = 0 THEN 0
  ELSE (a % 2) * (b % 2) + 2 * BitAndN(a \div 2, b \div 2, n - 1)

And8(a, b) == BitAndN(a, b, 8)

Bit(v, i) == (v \div (2 ^ i)) % 2

Pow2(n) == 2 ^ n

BoolBit(b) == IF b THEN 1 ELSE 0

\* Memories are kept as the map of the cells that differ from their reset
\* value d: Rd reads a cell, Wr stores a value.
Rd(m, a, d) == IF a \in DOMAIN m THEN m[a] ELSE d

Wr(m, a, v, d) ==
  IF v = d THEN [x \in (DOMAIN m) \ {a} |-> m[x]]
  ELSE [x \in (DOMAIN m) \cup {a} |-> IF x = a THEN v ELSE m[x]]

EmptyMemory == [x \in {} |-> 0]

HighByte(w) == (w \div 256) % 256
LowByte(w) == w % 256
Word(hi, lo) == 256 * hi + lo

\* --------------------------------------------------------------- variables
VARIABLES
  \* environment-driven input signals (held for one usb cycle)
  rx_active, rx_valid, rx_data,      \* utmi.rx_active / rx_valid / rx_data
  capture_enable,                    \* USBAnalyzer.capture_enable
  session_valid, speed_selection,    \* USBAnalyzer.session_valid / speed_selection
  event_strobe, event_code_in,       \* USBAnalyzer.event_strobe / event_code
  pwrite,                            \* trigger.pattern_write_* / mask_write_* port
  stream_ready,                      \* stream.ready (held for one sync cycle)
  setup,                             \* interface.setup (latest setup packet)
  hif,                               \* interface strobes of the control endpoint
  \* usb-domain registers of USBAnalyzer
  fsm, current_time, packet_size, packet_time, packet_byte_index,
  stage_mismatch, stage_match_count, seq_expected_stage,
  pending_trigger_event, pending_stage_compare, pending_stage_byte,
  pattern_read_data, mask_read_data, pattern_memory, mask_memory,
  trigger_fire_strobe, trigger_fire_count, trigger_toggle_out,
  \* sync-domain registers of USBAnalyzer
  mem_size_words, mem, wfsm, write_byte_addr, header_word_addr,
  read_word_addr, fifo_word_count, fifo_words_pending,
  stream_valid, stream_last, stream_payload,
  \* vendor request handler and trigger configuration registers
  hstate, rx_count, control_flags, control_stage_count,
  enable, armed, output_enable, stage_count,
  stage_offsets, stage_lengths, patterns_flat, masks_flat,
  \* bookkeeping of the model (not in the hardware)
  phase,        \* 0: first sync cycle of the usb cycle, 1: second
  ticks,        \* usb cycles elapsed
  logging,      \* whether the stream histories below are kept
  pkt,          \* bytes accepted for the packet being captured
  emitted,      \* records produced by the capture FSM in this session
  gfifo,        \* words committed and not yet popped, as produced
  out,          \* words the read side has popped in this session
  pending_addrs,\* word addresses of the record being written (uncommitted)
  ref_stage,    \* stage the documented sequence rule expects next
  ref_fired,    \* the documented sequence rule fired at the last usb edge
  end_stage,    \* stage that was expected when the last packet ended
  reset_age,    \* usb cycles a requested sequence reset has been outstanding
  fired_records,\* trigger-fired event records handed to the buffer writer
  rx_log,       \* payload bytes of the latest SET_TRIGGER_* transfer
  rx_setup,     \* setup packet of the latest SET_TRIGGER_* transfer
  \* host command line (cli.py)
  cli           \* the command's arguments, its device calls and exit code

inputVars == <<rx_active, rx_valid, rx_data, capture_enable, session_valid,
               speed_selection, event_strobe, event_code_in, pwrite, setup, hif>>

usbVars == <<fsm, current_time, packet_size, packet_time, packet_byte_index,
             stage_mismatch, stage_match_count, seq_expected_stage,
             pending_trigger_event, pending_stage_compare, pending_stage_byte,
             pattern_read_data, mask_read_data, pattern_memory, mask_memory,
             trigger_fire_strobe, trigger_fire_count, trigger_toggle_out>>

syncVars == <<mem_size_words, mem, wfsm, write_byte_addr, header_word_addr,
              read_word_addr, fifo_word_count, fifo_words_pending,
              stream_valid, stream_last, stream_payload>>

handlerVars == <<hstate, rx_count, control_flags, control_stage_count,
                 enable, armed, output_enable, stage_count,
                 stage_offsets, stage_lengths, patterns_flat, masks_flat>>

ghostVars == <<phase, ticks, logging, pkt, emitted, gfifo, out, pending_addrs,
               ref_stage, ref_fired, end_stage, reset_age, fired_records,
               rx_log, rx_setup>>

vars == <<inputVars, stream_ready, usbVars, syncVars, handlerVars, ghostVars, cli>>

\* ------------------------------------------------- vendor handler signals
\* The handler FSM only exists under the VENDOR / INTERFACE / wIndex = 0 test.
vendor_selected == setup.vendor

stage_index_raw == setup.value % 256
stage_index == stage_index_raw % TRIGGER_MAX_STAGES
valid_stage_index == stage_index_raw < TRIGGER_MAX_STAGES

rx_byte == hif.rx_valid /\ hif.rx_next

control_commit ==
  /\ vendor_selected
  /\ hstate = "SET_TRIGGER_CONTROL"
  /\ hif.rx_ready_for_response
  /\ rx_count >= TRIGGER_CONTROL_PAYLOAD_LEN

\* A disarm strobe driven by the control commit only.
disarm_strobe_commit_only == control_commit /\ Bit(control_flags, 0) = 0

arm_strobe ==
  vendor_selected /\ hstate = "ARM_TRIGGER" /\ hif.status_requested

disarm_strobe ==
  \/ (vendor_selected /\ hstate = "DISARM_TRIGGER" /\ hif.status_requested)
  \/ (control_commit /\ Bit(control_flags, 0) = 0)

\* Requests the handler claims by their code, and the states that claim
\* whatever the setup packet holds.
ClaimedRequests ==
  {GET_STATE, SET_STATE, GET_SPEEDS, SET_TEST_CONFIG, GET_MINOR_VERSION,
   GET_TRIGGER_CAPS, SET_TRIGGER_CONTROL, SET_TRIGGER_STAGE,
   GET_TRIGGER_STATUS, ARM_TRIGGER, DISARM_TRIGGER, GET_TRIGGER_STAGE}

ClaimingStates ==
  {"SET_TRIGGER_CONTROL", "SET_TRIGGER_STAGE", "ARM_TRIGGER", "DISARM_TRIGGER",
   "GET_TRIGGER_STAGE"}

claim ==
  vendor_selected /\ (setup.request \in ClaimedRequests \/ hstate \in ClaimingStates)

\* Handshakes the handler drives in this usb cycle.
payload_complete ==
  CASE hstate = "SET_TRIGGER_CONTROL" -> rx_count >= TRIGGER_CONTROL_PAYLOAD_LEN
    [] hstate = "SET_TRIGGER_STAGE" ->
         valid_stage_index /\ rx_count >= TRIGGER_STAGE_PAYLOAD_LEN
    [] OTHER -> FALSE

handshake_stall ==
  /\ vendor_selected
  /\ \/ /\ hstate \in {"SET_TRIGGER_CONTROL", "SET_TRIGGER_STAGE"}
        /\ hif.rx_ready_for_response \/ hif.status_requested
        /\ ~payload_complete
     \/ /\ hstate = "GET_TRIGGER_STAGE"
        /\ hif.data_requested \/ hif.status_requested
        /\ ~valid_stage_index

send_zlp ==
  /\ vendor_selected
  /\ hif.status_requested
  /\ \/ hstate \in {"ARM_TRIGGER", "DISARM_TRIGGER"}
     \/ (hstate \in {"SET_TRIGGER_CONTROL", "SET_TRIGGER_STAGE"} /\ payload_complete)

\* GET_TRIGGER_STATUS.  status_flags is an 8-bit Cat of the four flag bits;
\* the status word is the Cat of status_flags (8 bits), sequence_stage
\* (Signal(range(max_stages + 1)): 4 bits), the two bytes of fire_count and
\* stage_count (4 bits), each operand at its own width.
status_flags ==
  BoolBit(enable) + 2 * BoolBit(armed) + 4 * BoolBit(output_enable)
    + 8 * BoolBit(trigger_toggle_out)

Bits(v, w) == [k \in 1..w |-> Bit(v, k - 1)]

status_word ==
  Bits(status_flags, 8)
    \o Bits(seq_expected_stage, 4)
    \o Bits(trigger_fire_count % 256, 8)
    \o Bits(trigger_fire_count \div 256, 8)
    \o Bits(stage_count, 4)

\* Byte i of a bit vector (least significant bit first, zero extended).
ByteOf(w, i) ==
  LET b(k) == IF 8 * i + k + 1 <= Len(w) THEN w[8 * i + k + 1] ELSE 0
  IN b(0) + 2 * b(1) + 4 * b(2) + 8 * b(3)
       + 16 * b(4) + 32 * b(5) + 64 * b(6) + 128 * b(7)

\* The payload handle_simple_data_request (LUNA) serialises from the status
\* word with max_length TRIGGER_STATUS_PAYLOAD_LEN: the helper assigns the
\* word either to the whole transmitter data array or to its first byte
\* only, depending on the LUNA release the gateware is built with.
StatusResponses ==
  { [i \in 1..TRIGGER_STATUS_PAYLOAD_LEN |-> ByteOf(status_word, i - 1)],
    [i \in 1..TRIGGER_STATUS_PAYLOAD_LEN |->
       IF i = 1 THEN ByteOf(status_word, 0) ELSE 0] }

\* The stage count taken as received.
stage_count_unclamped == control_stage_count

stage_count_clamped ==
  IF control_stage_count > TRIGGER_MAX_STAGES
  THEN TRIGGER_MAX_STAGES ELSE control_stage_count

\* ------------------------------------------------ match pipeline (comb)
active_stage_index == seq_expected_stage % TRIGGER_MAX_STAGES
active_stage_offset == stage_offsets[active_stage_index]
active_stage_len_raw == stage_lengths[active_stage_index]

active_stage_len ==
  IF active_stage_len_raw > TRIGGER_MAX_PATTERN_BYTES
  THEN TRIGGER_MAX_PATTERN_BYTES ELSE active_stage_len_raw

\* A stage window that ignores the enable and armed bits.
active_stage_valid_ungated ==
  /\ seq_expected_stage < stage_count
  /\ seq_expected_stage < TRIGGER_MAX_STAGES

active_stage_valid ==
  /\ enable
  /\ armed
  /\ seq_expected_stage < stage_count
  /\ seq_expected_stage < TRIGGER_MAX_STAGES

stage_window_hit ==
  /\ active_stage_valid
  /\ packet_byte_index >= active_stage_offset
  /\ packet_byte_index < active_stage_offset + active_stage_len

pattern_index ==
  (packet_byte_index + 65536 - active_stage_offset) % TRIGGER_MAX_PATTERN_BYTES

pattern_flat_index ==
  (active_stage_index * TRIGGER_MAX_PATTERN_BYTES + pattern_index)
     % (TRIGGER_MAX_STAGES * TRIGGER_MAX_PATTERN_BYTES)

pending_stage_mismatch_unmasked == pending_stage_byte # pattern_read_data

pending_stage_mismatch ==
  And8(pending_stage_byte, mask_read_data) # And8(pattern_read_data, mask_read_data)

stage_mismatch_effective ==
  stage_mismatch \/ (pending_stage_compare /\ pending_stage_mismatch)

\* ------------------------------------------------- capture FSM (comb)
stopped == fsm = "AWAIT_START"
idle == fsm \in {"AWAIT_START", "AWAIT_PACKET"}
overrun == fsm = "OVERRUN"
capturing == fsm = "CAPTURE_PACKET"
starting == stopped /\ capture_enable

byte_received == rx_valid /\ rx_active

\* The branch AWAIT_PACKET takes this cycle (If / Elif chain).
await_packet_branch ==
  IF ~capture_enable THEN "stop"
  ELSE IF pending_trigger_event THEN "trigger"
  ELSE IF rx_active /\ session_valid /\ speed_selection # SPEED_AUTO THEN "packet"
  ELSE IF event_strobe THEN "event"
  ELSE IF current_time = 65535 THEN "rollover"
  ELSE "none"

start_capture == fsm = "AWAIT_START" /\ capture_enable /\ ~rx_active

new_packet == fsm = "AWAIT_PACKET" /\ await_packet_branch = "packet"
write_packet == fsm = "CAPTURE_PACKET" /\ byte_received
write_header == fsm = "CAPTURE_PACKET" /\ ~rx_active

write_event ==
  \/ start_capture
  \/ (fsm = "AWAIT_PACKET"
        /\ await_packet_branch \in {"stop", "trigger", "event", "rollover"})

event_code ==
  IF fsm = "AWAIT_START" THEN CAPTURE_START_BASE + speed_selection
  ELSE IF await_packet_branch = "stop" THEN CAPTURE_STOP_NORMAL
  ELSE IF await_packet_branch = "trigger" THEN TRIGGER_FIRED
  ELSE IF await_packet_branch = "event" THEN event_code_in
  ELSE EVENT_NONE

\* Stage outcome at packet end.
full_match ==
  /\ active_stage_valid
  /\ active_stage_len > 0
  /\ ~stage_mismatch_effective
  /\ stage_match_count = active_stage_len
  /\ packet_size >= active_stage_offset + active_stage_len

final_stage_any == TRUE

final_stage == seq_expected_stage + 1 >= stage_count

fire == write_header /\ full_match /\ final_stage
advance_any == write_header /\ ~final_stage

advance == write_header /\ full_match /\ ~final_stage

\* Overrun detection, evaluated on the values the sync domain shows at the
\* usb clock edge.
buffer_filling ==
  fifo_word_count + fifo_words_pending = mem_size_words - 1

\* ------------------------------------------------- ring buffer (sync, comb)
\* The stream produces the next word when there is data in the FIFO.
mem_read_en == (~stream_valid \/ stream_ready) /\ fifo_word_count # 0

fifo_words_popped == BoolBit(mem_read_en)

data_commit == wfsm \in {"FINISH_HEADER", "FINISH_EVENT"}

startup_reset == starting /\ ~data_commit

write_odd == write_byte_addr % 2
write_word_addr == write_byte_addr \div 2

next_byte_addr_aligned == IF starting THEN 0 ELSE write_byte_addr + write_odd
next_word_addr == (next_byte_addr_aligned \div 2) % mem_size_words

\* The request the buffer write FSM serves in START (If / Elif chain).
write_request ==
  IF wfsm # "START" THEN "none"
  ELSE IF new_packet THEN "new_packet"
  ELSE IF write_packet THEN "write_packet"
  ELSE IF write_header THEN "write_header"
  ELSE IF write_event THEN "write_event"
  ELSE "none"

next_wfsm ==
  CASE write_request \in {"new_packet", "write_packet"} -> "IDLE"
    [] write_request = "write_header" -> "FINISH_HEADER"
    [] write_request = "write_event" -> "FINISH_EVENT"
    [] OTHER -> "START"

next_header_word_addr ==
  IF write_request \in {"new_packet", "write_event"}
  THEN next_word_addr ELSE header_word_addr

next_fifo_words_pending ==
  CASE write_request = "new_packet" -> HEADER_SIZE_WORDS
    [] write_request = "write_event" -> EVENT_SIZE_WORDS
    [] write_request = "write_packet" ->
         (fifo_words_pending + (1 - write_odd)) % Pow2(11)
    [] OTHER -> IF startup_reset THEN 0 ELSE fifo_words_pending

next_write_byte_addr ==
  CASE write_request = "new_packet" ->
         (next_byte_addr_aligned + HEADER_SIZE_BYTES) % (2 * mem_size_words)
    [] write_request = "write_event" ->
         (next_byte_addr_aligned + EVENT_SIZE_BYTES) % (2 * mem_size_words)
    [] write_request = "write_packet" ->
         (write_byte_addr + 1) % (2 * mem_size_words)
    [] OTHER -> IF startup_reset THEN 0 ELSE write_byte_addr

next_fifo_word_count ==
  IF startup_reset THEN 0
  ELSE (fifo_word_count - fifo_words_popped
          + (IF data_commit THEN fifo_words_pending ELSE 0)) % mem_size_words

next_read_word_addr ==
  IF startup_reset THEN 0
  ELSE IF mem_read_en THEN (read_word_addr + 1) % mem_size_words
  ELSE read_word_addr

next_stream_valid ==
  IF startup_reset THEN FALSE
  ELSE IF ~stream_valid \/ stream_ready THEN mem_read_en
  ELSE stream_valid

next_stream_last ==
  IF ~stream_valid \/ stream_ready THEN fifo_word_count = 1 ELSE stream_last

\* Non-transparent read port: the word stored before this edge.
next_stream_payload ==
  IF mem_read_en THEN Rd(mem, read_word_addr, 0) ELSE stream_payload

\* Byte lanes of the write port: an even byte address is the high byte.
PacketByteWrite(old) ==
  IF write_odd = 1 THEN Word(HighByte(old), rx_data)
  ELSE Word(rx_data, LowByte(old))

next_mem ==
  CASE write_request = "write_packet" ->
         Wr(mem, write_word_addr, PacketByteWrite(Rd(mem, write_word_addr, 0)), 0)
    [] write_request = "write_header" ->
         Wr(mem, header_word_addr, packet_size, 0)
    [] write_request = "write_event" ->
         Wr(mem, next_word_addr, Word(255, event_code), 0)
    [] wfsm = "FINISH_HEADER" ->
         Wr(mem, (header_word_addr + 1) % mem_size_words, packet_time, 0)
    [] wfsm = "FINISH_EVENT" ->
         Wr(mem, (header_word_addr + 1) % mem_size_words, current_time, 0)
    [] OTHER -> mem

\* ---------------------------------------------- records, as they are framed
PayloadWordCount(n) == (n + 1) \div 2

\* Words of a packet record: length, timestamp, payload (first byte in the
\* high half); pad is the low half of the last word of an odd payload.
PacketWords(data, time, pad) ==
  <<Len(data), time>> \o
  [i \in 1..PayloadWordCount(Len(data)) |->
     Word(data[2 * i - 1], IF 2 * i <= Len(data) THEN data[2 * i] ELSE pad)]

EventWords(code, time) == <<Word(255, code), time>>

PacketRecord(data, time) ==
  [kind |-> "packet", code |-> 0, time |-> time, data |-> data]

EventRecord(code, time) ==
  [kind |-> "event", code |-> code, time |-> time, data |-> <<>>]

\* Address of the last payload word of the record whose header is at
\* header_word_addr, and the pad byte stored there.
last_payload_word_addr ==
  (header_word_addr + HEADER_SIZE_WORDS + PayloadWordCount(Len(pkt)) - 1)
     % mem_size_words

pad_byte == LowByte(Rd(mem, last_payload_word_addr, 0))

\* Words that the commit of this sync cycle adds to the stream.
committed_words ==
  IF wfsm = "FINISH_HEADER" THEN PacketWords(pkt, packet_time, pad_byte)
  ELSE IF wfsm = "FINISH_EVENT" THEN EventWords(event_code, current_time)
  ELSE <<>>

\* What the reader can see: the committed words from the read pointer on.
FifoView ==
  [i \in 1..fifo_word_count |->
     Rd(mem, (read_word_addr + i - 1) % mem_size_words, 0)]

\* ------------------------------------------- capture FSM (usb registers)
next_fsm ==
  CASE fsm = "AWAIT_START" ->
         IF capture_enable /\ ~rx_active THEN "AWAIT_PACKET" ELSE "AWAIT_START"
    [] fsm = "AWAIT_PACKET" ->
         IF await_packet_branch = "stop" THEN "AWAIT_START"
         ELSE IF await_packet_branch = "packet" THEN "CAPTURE_PACKET"
         ELSE "AWAIT_PACKET"
    [] fsm = "CAPTURE_PACKET" ->
         IF ~rx_active THEN "AWAIT_PACKET"
         ELSE IF byte_received /\ buffer_filling THEN "OVERRUN"
         ELSE "CAPTURE_PACKET"
    [] fsm = "OVERRUN" ->
         IF ~capture_enable THEN "AWAIT_START" ELSE "OVERRUN"
    [] OTHER -> fsm

\* A timestamp counter that restarts at 1 after a rollover event, as after
\* the other events.
next_current_time_restarting ==
  CASE fsm = "AWAIT_START" -> 0
    [] fsm = "AWAIT_PACKET"
         /\ await_packet_branch \in {"trigger", "event", "rollover"} -> 1
    [] fsm = "AWAIT_PACKET" /\ await_packet_branch = "packet" -> 0
    [] OTHER -> (current_time + 1) % Pow2(16)

next_current_time ==
  CASE fsm = "AWAIT_START" -> 0
    [] fsm = "AWAIT_PACKET" /\ await_packet_branch \in {"trigger", "event"} -> 1
    [] fsm = "AWAIT_PACKET" /\ await_packet_branch = "packet" -> 0
    [] OTHER -> (current_time + 1) % Pow2(16)

next_packet_size ==
  IF new_packet THEN 0
  ELSE IF write_packet THEN (packet_size + 1) % Pow2(16)
  ELSE packet_size

next_packet_time == IF new_packet THEN current_time ELSE packet_time

next_packet_byte_index ==
  IF fsm = "AWAIT_START" \/ new_packet THEN 0
  ELSE IF write_packet THEN (packet_byte_index + 1) % Pow2(11)
  ELSE packet_byte_index

next_stage_mismatch ==
  IF fsm = "AWAIT_START" \/ new_packet THEN FALSE
  ELSE IF fsm = "CAPTURE_PACKET" /\ pending_stage_compare /\ pending_stage_mismatch
  THEN TRUE
  ELSE stage_mismatch

next_stage_match_count ==
  IF fsm = "AWAIT_START" \/ new_packet THEN 0
  ELSE IF write_packet /\ stage_window_hit THEN (stage_match_count + 1) % Pow2(6)
  ELSE stage_match_count

next_pending_stage_compare ==
  IF fsm = "AWAIT_START" \/ new_packet THEN FALSE
  ELSE IF fsm = "CAPTURE_PACKET" THEN write_packet /\ stage_window_hit
  ELSE pending_stage_compare

next_pending_stage_byte ==
  IF write_packet /\ stage_window_hit THEN rx_data ELSE pending_stage_byte

next_seq_expected_stage_skipping ==
  CASE fsm = "AWAIT_START" -> 0
    [] fsm = "AWAIT_PACKET" ->
         IF disarm_strobe \/ ~enable \/ ~armed \/ arm_strobe
         THEN 0 ELSE seq_expected_stage
    [] fsm = "CAPTURE_PACKET" ->
         IF fire THEN 0
         ELSE IF advance THEN (seq_expected_stage + 2) % Pow2(4)
         ELSE seq_expected_stage
    [] OTHER -> seq_expected_stage

\* The sequence position surviving a capture stop.
next_seq_expected_stage_kept_on_stop ==
  CASE fsm = "AWAIT_PACKET" ->
         IF disarm_strobe \/ ~enable \/ ~armed \/ arm_strobe
         THEN 0 ELSE seq_expected_stage
    [] fsm = "CAPTURE_PACKET" ->
         IF fire THEN 0
         ELSE IF advance THEN (seq_expected_stage + 1) % Pow2(4)
         ELSE seq_expected_stage
    [] OTHER -> seq_expected_stage

\* A sequence position that keeps counting past the last stage.
next_seq_expected_stage_past_end ==
  CASE fsm = "AWAIT_START" -> 0
    [] fsm = "AWAIT_PACKET" ->
         IF disarm_strobe \/ ~enable \/ ~armed \/ arm_strobe
         THEN 0 ELSE seq_expected_stage
    [] fsm = "CAPTURE_PACKET" ->
         IF write_header /\ full_match THEN (seq_expected_stage + 1) % Pow2(4)
         ELSE seq_expected_stage
    [] OTHER -> seq_expected_stage

\* Sequence FSM: the stage expected next.
next_seq_expected_stage ==
  CASE fsm = "AWAIT_START" -> 0
    [] fsm = "AWAIT_PACKET" ->
         IF disarm_strobe \/ ~enable \/ ~armed \/ arm_strobe
         THEN 0 ELSE seq_expected_stage
    [] fsm = "CAPTURE_PACKET" ->
         IF fire THEN 0
         ELSE IF advance THEN (seq_expected_stage + 1) % Pow2(4)
         ELSE seq_expected_stage
    [] OTHER -> seq_expected_stage

next_pending_trigger_event ==
  IF fsm = "AWAIT_START" THEN FALSE
  ELSE IF fsm = "AWAIT_PACKET" /\ await_packet_branch = "trigger" THEN FALSE
  ELSE IF fire THEN TRUE
  ELSE pending_trigger_event

\* A fire counter that belongs to the capture session.
next_trigger_fire_count_per_session ==
  IF fsm = "AWAIT_START" THEN 0
  ELSE IF fire THEN (trigger_fire_count + 1) % Pow2(16)
  ELSE trigger_fire_count

next_trigger_fire_count ==
  IF fire THEN (trigger_fire_count + 1) % Pow2(16) ELSE trigger_fire_count

\* The toggle not gated by output_enable.
next_trigger_toggle_out_ungated ==
  IF fire THEN ~trigger_toggle_out ELSE trigger_toggle_out

next_trigger_toggle_out ==
  IF fire /\ output_enable THEN ~trigger_toggle_out ELSE trigger_toggle_out

\* Synchronous read ports of the pattern / mask memories.
next_pattern_read_data ==
  IF stage_window_hit THEN Rd(pattern_memory, pattern_flat_index, 0)
  ELSE pattern_read_data

next_mask_read_data ==
  IF stage_window_hit THEN Rd(mask_memory, pattern_flat_index, 255)
  ELSE mask_read_data

\* Write ports of the pattern / mask memories.
next_pattern_memory ==
  IF pwrite.pattern_en
  THEN Wr(pattern_memory, pwrite.pattern_addr, pwrite.pattern_data, 0)
  ELSE pattern_memory

next_mask_memory ==
  IF pwrite.mask_en
  THEN Wr(mask_memory, pwrite.mask_addr, pwrite.mask_data, 255)
  ELSE mask_memory

\* ---------------------------------------- vendor request handler (usb regs)
Dispatch(request) ==
  CASE request = GET_STATE -> "GET_STATE"
    [] request = SET_STATE -> "SET_STATE"
    [] request = GET_SPEEDS -> "GET_SPEEDS"
    [] request = SET_TEST_CONFIG -> "SET_TEST_CONFIG"
    [] request = GET_MINOR_VERSION -> "GET_MINOR_VERSION"
    [] request = GET_TRIGGER_CAPS -> "GET_TRIGGER_CAPS"
    [] request = SET_TRIGGER_CONTROL -> "SET_TRIGGER_CONTROL"
    [] request = SET_TRIGGER_STAGE -> "SET_TRIGGER_STAGE"
    [] request = GET_TRIGGER_STATUS -> "GET_TRIGGER_STATUS"
    [] request = ARM_TRIGGER -> "ARM_TRIGGER"
    [] request = DISARM_TRIGGER -> "DISARM_TRIGGER"
    [] request = GET_TRIGGER_STAGE -> "GET_TRIGGER_STAGE"
    [] OTHER -> "IDLE"

dispatching == vendor_selected /\ hstate = "IDLE" /\ hif.setup_received

next_hstate ==
  IF ~vendor_selected THEN hstate
  ELSE IF hstate = "IDLE"
  THEN (IF hif.setup_received THEN Dispatch(setup.request) ELSE "IDLE")
  ELSE IF hif.status_requested THEN "IDLE"
  ELSE IF hstate = "GET_TRIGGER_STAGE" /\ hif.data_requested /\ ~valid_stage_index
  THEN "IDLE"
  ELSE hstate

receiving ==
  vendor_selected /\ hstate \in {"SET_TRIGGER_CONTROL", "SET_TRIGGER_STAGE"} /\ rx_byte

next_rx_count ==
  IF dispatching /\ setup.request \in {SET_TRIGGER_CONTROL, SET_TRIGGER_STAGE} THEN 0
  ELSE IF receiving /\ rx_count < TRIGGER_STAGE_PAYLOAD_LEN THEN rx_count + 1
  ELSE rx_count

next_control_flags ==
  IF dispatching /\ setup.request = SET_TRIGGER_CONTROL THEN 0
  ELSE IF receiving /\ hstate = "SET_TRIGGER_CONTROL" /\ rx_count = 0 THEN hif.rx_payload
  ELSE control_flags

next_control_stage_count ==
  IF dispatching /\ setup.request = SET_TRIGGER_CONTROL THEN 0
  ELSE IF receiving /\ hstate = "SET_TRIGGER_CONTROL" /\ rx_count = 1 THEN hif.rx_payload
  ELSE control_stage_count

next_enable == IF control_commit THEN Bit(control_flags, 0) = 1 ELSE enable

next_output_enable ==
  IF control_commit THEN Bit(control_flags, 1) = 1 ELSE output_enable

next_stage_count == IF control_commit THEN stage_count_clamped ELSE stage_count

\* A single-shot trigger: firing would disarm it.
next_armed_single_shot ==
  IF arm_strobe THEN TRUE
  ELSE IF disarm_strobe \/ fire THEN FALSE
  ELSE armed

next_armed ==
  IF arm_strobe THEN TRUE
  ELSE IF disarm_strobe THEN FALSE
  ELSE armed

\* A stage write that goes to the truncated index whatever wValue is.
stage_write_truncating == receiving /\ hstate = "SET_TRIGGER_STAGE"

\* SET_TRIGGER_STAGE commits each payload byte as it is received.
stage_write == receiving /\ hstate = "SET_TRIGGER_STAGE" /\ valid_stage_index

\* The length byte stored as received.
UnclampedLength(v) == v

ClampLength(v) ==
  IF v > TRIGGER_MAX_PATTERN_BYTES THEN TRIGGER_MAX_PATTERN_BYTES ELSE v

StageFlatIndex(stage, i) == stage * TRIGGER_MAX_PATTERN_BYTES + i

\* A stage offset register that takes the low byte only.
next_stage_offsets_low_only ==
  IF stage_write /\ rx_count = 0
  THEN [stage_offsets EXCEPT ![stage_index] = 256 * HighByte(@) + hif.rx_payload]
  ELSE stage_offsets

next_stage_offsets ==
  IF stage_write /\ rx_count = 0
  THEN [stage_offsets EXCEPT ![stage_index] = 256 * HighByte(@) + hif.rx_payload]
  ELSE IF stage_write /\ rx_count = 1
  THEN [stage_offsets EXCEPT ![stage_index] = 256 * hif.rx_payload + LowByte(@)]
  ELSE stage_offsets

next_stage_lengths ==
  IF stage_write /\ rx_count = 2
  THEN [stage_lengths EXCEPT ![stage_index] = ClampLength(hif.rx_payload)]
  ELSE stage_lengths

next_patterns_flat ==
  IF stage_write /\ rx_count >= 4 /\ rx_count < 4 + TRIGGER_MAX_PATTERN_BYTES
  THEN Wr(patterns_flat, StageFlatIndex(stage_index, rx_count - 4), hif.rx_payload, 0)
  ELSE patterns_flat

next_masks_flat ==
  IF /\ stage_write
     /\ rx_count >= 4 + TRIGGER_MAX_PATTERN_BYTES
     /\ rx_count < TRIGGER_STAGE_PAYLOAD_LEN
  THEN Wr(masks_flat,
          StageFlatIndex(stage_index, rx_count - 4 - TRIGGER_MAX_PATTERN_BYTES),
          hif.rx_payload, 255)
  ELSE masks_flat

\* GET_TRIGGER_STAGE: the 68 bytes wired to the transmitter for stage_index.
StageResponse ==
  [k \in 1..TRIGGER_STAGE_PAYLOAD_LEN |->
     CASE k = 1 -> LowByte(stage_offsets[stage_index])
       [] k = 2 -> HighByte(stage_offsets[stage_index])
       [] k = 3 -> stage_lengths[stage_index]
       [] k = 4 -> 0
       [] k > 4 /\ k <= 4 + TRIGGER_MAX_PATTERN_BYTES ->
            Rd(patterns_flat, StageFlatIndex(stage_index, k - 5), 0)
       [] OTHER ->
            Rd(masks_flat,
               StageFlatIndex(stage_index, k - 5 - TRIGGER_MAX_PATTERN_BYTES), 255)]

\* ------------------------------------------------------ model bookkeeping
\* Record the capture FSM hands to the framer in this usb cycle, if any.
next_emitted ==
  IF phase # 0 \/ ~logging THEN emitted
  ELSE IF starting
  THEN (IF write_event THEN <<EventRecord(event_code, current_time)>> ELSE <<>>)
  ELSE IF write_event THEN Append(emitted, EventRecord(event_code, current_time))
  ELSE IF write_header THEN Append(emitted, PacketRecord(pkt, packet_time))
  ELSE emitted

next_gfifo ==
  IF startup_reset \/ ~logging THEN <<>>
  ELSE (IF mem_read_en /\ gfifo # <<>> THEN Tail(gfifo) ELSE gfifo) \o committed_words

\* A popped word is held in stream.payload until the reader takes it.
next_out ==
  IF startup_reset \/ ~logging THEN <<>>
  ELSE IF mem_read_en THEN Append(out, Rd(mem, read_word_addr, 0))
  ELSE out

next_pending_addrs ==
  CASE write_request \in {"new_packet", "write_event"} ->
         {next_word_addr, (next_word_addr + 1) % mem_size_words}
    [] write_request = "write_packet" -> pending_addrs \cup {write_word_addr}
    [] data_commit \/ startup_reset -> {}
    [] OTHER -> pending_addrs

next_pkt ==
  IF new_packet THEN <<>>
  ELSE IF write_packet THEN Append(pkt, rx_data)
  ELSE pkt

\* ------------------------------------- the documented trigger rule (ghost)
\* A packet fully matches stage i: it reaches the end of the window and
\* every window byte equals the pattern byte under the mask.
PacketMatchesStage(data, i) ==
  LET o == stage_offsets[i]
      k == stage_lengths[i]
  IN /\ Len(data) >= o + k
     /\ \A j \in 0..(k - 1) :
          And8(data[o + j + 1], Rd(mask_memory, StageFlatIndex(i, j), 255))
            = And8(Rd(pattern_memory, StageFlatIndex(i, j), 0),
                   Rd(mask_memory, StageFlatIndex(i, j), 255))

ref_match ==
  /\ write_header
  /\ enable /\ armed
  /\ ref_stage < stage_count
  /\ stage_lengths[ref_stage] > 0
  /\ PacketMatchesStage(pkt, ref_stage)

ref_fire == ref_match /\ ref_stage + 1 = stage_count

next_ref_stage ==
  IF fsm = "AWAIT_START" \/ arm_strobe \/ disarm_strobe \/ ~enable THEN 0
  ELSE IF ref_fire THEN 0
  ELSE IF ref_match THEN ref_stage + 1
  ELSE ref_stage

\* A sequence reset is requested by an arm strobe, a disarm strobe or a
\* cleared enable; it is outstanding until seq_expected_stage is seen at 0.
reset_request == arm_strobe \/ disarm_strobe \/ ~enable

next_reset_age ==
  IF next_seq_expected_stage = 0 THEN 0
  ELSE IF reset_age > 0
    THEN (IF reset_age > ResetLatency THEN reset_age ELSE reset_age + 1)
  ELSE IF reset_request THEN 1
  ELSE 0

\* Trigger-fired records the capture FSM has written since reset.
next_fired_records ==
  IF write_event /\ event_code = TRIGGER_FIRED
  THEN fired_records + 1 ELSE fired_records

\* Payload bytes of the latest OUT transfer (SET_TRIGGER_CONTROL or
\* SET_TRIGGER_STAGE) as the host sent them, and the setup packet that
\* started it.
out_dispatching ==
  dispatching /\ setup.request \in {SET_TRIGGER_CONTROL, SET_TRIGGER_STAGE}

next_rx_log ==
  IF out_dispatching THEN <<>>
  ELSE IF receiving /\ Len(rx_log) < TRIGGER_STAGE_PAYLOAD_LEN
    THEN Append(rx_log, hif.rx_payload)
  ELSE rx_log

next_rx_setup == IF out_dispatching THEN setup ELSE rx_setup

\* ------------------------------------------------------------------- Init
NoPatternWrite ==
  [pattern_en |-> FALSE, pattern_addr |-> 0, pattern_data |-> 0,
   mask_en |-> FALSE, mask_addr |-> 0, mask_data |-> 0]

NoStrobe ==
  [setup_received |-> FALSE, rx_valid |-> FALSE, rx_next |-> FALSE,
   rx_payload |-> 0, rx_ready_for_response |-> FALSE,
   status_requested |-> FALSE, data_requested |-> FALSE]

NoSetup == [vendor |-> FALSE, request |-> 0, value |-> 0]

\* No host command is being run.
NoCommand == [pc |-> "none"]

FlatIndexes == 0..(TRIGGER_MAX_STAGES * TRIGGER_MAX_PATTERN_BYTES - 1)
Stages == 0..(TRIGGER_MAX_STAGES - 1)

\* Reset values of the input signals: a quiet bus, capture disabled.
InitInputs ==
  /\ rx_active = FALSE /\ rx_valid = FALSE /\ rx_data = 0
  /\ capture_enable = FALSE
  /\ session_valid = TRUE /\ speed_selection = 0
  /\ event_strobe = FALSE /\ event_code_in = 0
  /\ pwrite = NoPatternWrite
  /\ stream_ready = FALSE
  /\ setup = NoSetup /\ hif = NoStrobe

InitAnalyzerCounting(depth, fires) ==
  /\ fsm = "AWAIT_START"
  /\ current_time = 0 /\ packet_size = 0 /\ packet_time = 0
  /\ packet_byte_index = 0
  /\ stage_mismatch = FALSE /\ stage_match_count = 0
  /\ seq_expected_stage = 0
  /\ pending_trigger_event = FALSE
  /\ pending_stage_compare = FALSE /\ pending_stage_byte = 0
  /\ pattern_read_data = 0 /\ mask_read_data = 0
  /\ trigger_fire_strobe = FALSE /\ trigger_fire_count = fires
  /\ trigger_toggle_out = FALSE
  /\ mem_size_words = depth
  /\ mem = EmptyMemory
  /\ wfsm = "START"
  /\ write_byte_addr = 0 /\ header_word_addr = 0 /\ read_word_addr = 0
  /\ fifo_word_count = 0 /\ fifo_words_pending = 0
  /\ stream_valid = FALSE /\ stream_last = FALSE /\ stream_payload = 0

\* Reset state of USBAnalyzer.
InitAnalyzer(depth) == InitAnalyzerCounting(depth, 0)

InitMemories ==
  /\ pattern_memory = EmptyMemory
  /\ mask_memory = EmptyMemory

InitHandler ==
  /\ hstate = "IDLE"
  /\ rx_count = 0 /\ control_flags = 0 /\ control_stage_count = 0

InitTriggerConfig ==
  /\ enable = FALSE /\ armed = FALSE /\ output_enable = TRUE
  /\ stage_count = 0
  /\ stage_offsets = [i \in Stages |-> 0]
  /\ stage_lengths = [i \in Stages |-> 0]
  /\ patterns_flat = EmptyMemory
  /\ masks_flat = EmptyMemory

InitGhost(log) ==
  /\ phase = 0 /\ ticks = 0 /\ logging = log
  /\ pkt = <<>> /\ emitted = <<>> /\ gfifo = <<>> /\ out = <<>>
  /\ pending_addrs = {}
  /\ ref_stage = 0 /\ ref_fired = FALSE /\ end_stage = 0
  /\ reset_age = 0 /\ fired_records = 0 /\ rx_log = <<>>
  /\ rx_setup = [vendor |-> FALSE, request |-> 0, value |-> 0]
  /\ cli = NoCommand

Init ==
  /\ InitInputs
  /\ InitAnalyzer(Pow2(AddrBits))
  /\ InitMemories
  /\ InitHandler
  /\ InitTriggerConfig
  /\ InitGhost(TRUE)

\* ---------------------------------------------------------------- actions
\* Registers clocked by the sync domain (every sync edge).
SyncUpdate ==
  /\ mem_size_words' = mem_size_words
  /\ mem' = next_mem
  /\ wfsm' = next_wfsm
  /\ write_byte_addr' = next_write_byte_addr
  /\ header_word_addr' = next_header_word_addr
  /\ read_word_addr' = next_read_word_addr
  /\ fifo_word_count' = next_fifo_word_count
  /\ fifo_words_pending' = next_fifo_words_pending
  /\ stream_valid' = next_stream_valid
  /\ stream_last' = next_stream_last
  /\ stream_payload' = next_stream_payload
  /\ emitted' = next_emitted
  /\ gfifo' = next_gfifo
  /\ out' = next_out
  /\ pending_addrs' = next_pending_addrs
  /\ logging' = logging

\* Registers of USBAnalyzer clocked by the usb domain.
UsbUpdate ==
  /\ fsm' = next_fsm
  /\ current_time' = next_current_time
  /\ packet_size' = next_packet_size
  /\ packet_time' = next_packet_time
  /\ packet_byte_index' = next_packet_byte_index
  /\ stage_mismatch' = next_stage_mismatch
  /\ stage_match_count' = next_stage_match_count
  /\ seq_expected_stage' = next_seq_expected_stage
  /\ pending_trigger_event' = next_pending_trigger_event
  /\ pending_stage_compare' = next_pending_stage_compare
  /\ pending_stage_byte' = next_pending_stage_byte
  /\ pattern_read_data' = next_pattern_read_data
  /\ mask_read_data' = next_mask_read_data
  /\ pattern_memory' = next_pattern_memory
  /\ mask_memory' = next_mask_memory
  /\ trigger_fire_strobe' = fire
  /\ trigger_fire_count' = next_trigger_fire_count
  /\ trigger_toggle_out' = next_trigger_toggle_out
  /\ pkt' = next_pkt

\* Registers of the vendor request handler (usb domain).
HandlerUpdate ==
  /\ hstate' = next_hstate
  /\ rx_count' = next_rx_count
  /\ control_flags' = next_control_flags
  /\ control_stage_count' = next_control_stage_count
  /\ enable' = next_enable
  /\ armed' = next_armed
  /\ output_enable' = next_output_enable
  /\ stage_count' = next_stage_count
  /\ stage_offsets' = next_stage_offsets
  /\ stage_lengths' = next_stage_lengths
  /\ patterns_flat' = next_patterns_flat
  /\ masks_flat' = next_masks_flat

\* The environment drives the inputs of the next usb cycle.
DriveInputs(e) ==
  /\ rx_active' = e.rx_active
  /\ rx_valid' = e.rx_valid
  /\ rx_data' = e.rx_data
  /\ capture_enable' = e.capture_enable
  /\ session_valid' = e.session_valid
  /\ speed_selection' = e.speed_selection
  /\ event_strobe' = e.event_strobe
  /\ event_code_in' = e.event_code_in
  /\ pwrite' = e.pwrite
  /\ setup' = e.setup
  /\ hif' = e.hif
  /\ stream_ready' = e.stream_ready

\* Sync clock edge in the middle of a usb cycle.
SyncEdge(ready) ==
  /\ phase = 0
  /\ SyncUpdate
  /\ phase' = 1
  /\ stream_ready' = ready
  /\ UNCHANGED <<inputVars, usbVars, handlerVars, ticks, pkt, ref_stage, ref_fired,
               end_stage, reset_age, fired_records, rx_log, rx_setup, cli>>

\* Coincident sync and usb clock edge; e holds the inputs of the next cycle.
UsbEdge(e) ==
  /\ phase = 1
  /\ SyncUpdate
  /\ UsbUpdate
  /\ HandlerUpdate
  /\ DriveInputs(e)
  /\ phase' = 0
  /\ ticks' = ticks + 1
  /\ ref_stage' = next_ref_stage
  /\ ref_fired' = ref_fire
  /\ end_stage' = IF write_header THEN seq_expected_stage ELSE end_stage
  /\ reset_age' = next_reset_age
  /\ fired_records' = next_fired_records
  /\ rx_log' = next_rx_log
  /\ rx_setup' = next_rx_setup
  /\ UNCHANGED cli

\* ------------------------------------------------- environments (inputs)
QuietInputs ==
  [rx_active |-> FALSE, rx_valid |-> FALSE, rx_data |-> 0,
   capture_enable |-> FALSE, session_valid |-> TRUE, speed_selection |-> 0,
   event_strobe |-> FALSE, event_code_in |-> 0,
   pwrite |-> NoPatternWrite, setup |-> NoSetup, hif |-> NoStrobe,
   stream_ready |-> FALSE]

\* Byte source: idle, active without a byte, or active with a byte of B.
RxSignals(B) ==
  {[rx_active |-> FALSE, rx_valid |-> FALSE, rx_data |-> 0],
   [rx_active |-> TRUE, rx_valid |-> FALSE, rx_data |-> 0]}
  \cup {[rx_active |-> TRUE, rx_valid |-> TRUE, rx_data |-> b] : b \in B}

\* Byte source delivering a byte in every cycle of a packet.
PacketSignals(B) == {r \in RxSignals(B) : r.rx_active => r.rx_valid}

WithRx(e, r) ==
  [e EXCEPT !.rx_active = r.rx_active, !.rx_valid = r.rx_valid,
            !.rx_data = r.rx_data]

\* Capture specification: trigger left disabled; the byte source, the host's
\* capture enable, an external event detector and the reader are free.
CaptureBytes == {17, 255}
ExternalEventCodes == {11}

CaptureEnv ==
  {[WithRx(QuietInputs, r) EXCEPT !.capture_enable = ce, !.event_strobe = es,
                                  !.event_code_in = ec,
                                  !.stream_ready = rdy] :
     r \in RxSignals(CaptureBytes), ce \in BOOLEAN, es \in BOOLEAN,
     ec \in ExternalEventCodes, rdy \in BOOLEAN}

CaptureSyncEdge == \E ready \in BOOLEAN : SyncEdge(ready)

CaptureUsbEdge == ticks < MaxTicks /\ \E e \in CaptureEnv : UsbEdge(e)

Next == CaptureSyncEdge \/ CaptureUsbEdge

Spec == Init /\ [][Next]_vars

\* ------------------------------------------------------- reader's view
RECURSIVE WordsToBytes(_)
WordsToBytes(w) ==
  IF w = <<>> THEN <<>>
  ELSE <<HighByte(w[1]), LowByte(w[1])>> \o WordsToBytes(Tail(w))

\* The sentinel rule: a leading 0xFF is a 4-byte event; otherwise a
\* big-endian length, two timestamp bytes, the payload and, for an odd
\* length, a pad byte that is discarded.  An incomplete tail is left out.
RECURSIVE ParseStream(_)
ParseStream(b) ==
  IF Len(b) < 4 THEN <<>>
  ELSE IF b[1] = 255
  THEN <<EventRecord(b[2], Word(b[3], b[4]))>> \o ParseStream(SubSeq(b, 5, Len(b)))
  ELSE LET n == Word(b[1], b[2])
           padded == n + (n % 2)
       IN IF Len(b) < 4 + padded THEN <<>>
          ELSE <<PacketRecord(SubSeq(b, 5, 4 + n), Word(b[3], b[4]))>>
                 \o ParseStream(SubSeq(b, 5 + padded, Len(b)))

IsPrefix(p, q) == Len(p) <= Len(q) /\ p = SubSeq(q, 1, Len(p))

\* ------------------------------------------------------------ properties
\* C1: every packet of n >= 1 bytes whose end the capture FSM sees is
\* committed as exactly one record: the reader-visible FIFO is extended by
\* the header (n, timestamp), the n payload bytes in arrival order and one
\* pad byte when n is odd.
C1_PacketRecordCommitted ==
  [][(wfsm = "FINISH_HEADER" /\ Len(pkt) >= 1) =>
       FifoView' = (IF mem_read_en THEN Tail(FifoView) ELSE FifoView)
                     \o PacketWords(pkt, packet_time, pad_byte)]_vars

\* C2: the committed word count grows only on a data_commit and then by the
\* whole pending count, words are popped only while the count is non-zero,
\* and every popped word is the next word of a committed record, never a
\* word of the record still being written.
C2_NoPartialRecordObserved ==
  [][/\ (fifo_word_count' > fifo_word_count
           => data_commit /\ fifo_word_count' =
                fifo_word_count - fifo_words_popped + fifo_words_pending)
     /\ (mem_read_en
           => /\ fifo_word_count # 0
              /\ read_word_addr \notin pending_addrs
              /\ gfifo # <<>>
              /\ Rd(mem, read_word_addr, 0) = Head(gfifo))]_vars

\* C3: splitting the words popped from the FIFO into the stream with the
\* sentinel rule gives back the records the capture FSM produced, in order,
\* events as events and packets as packets.
C3_ReaderRecoversRecords ==
  IsPrefix(ParseStream(WordsToBytes(out)), emitted)

\* ------------------------------------------------ trigger specification
\* The trigger is configured before capture starts, the way the test bench
\* does it (enable, armed, stage_count, stage offsets / lengths set, pattern
\* and mask bytes stored through the write ports); then packets arrive.
Stage(o, k) == [offset |-> o, length |-> k]
NoStage == Stage(0, 0)

StageTable(st) == [i \in Stages |-> IF i < Len(st) THEN st[i + 1] ELSE NoStage]

\* Memory image holding the bytes bs[s] of stage s - 1 from index 0 on.
RECURSIVE StageImage(_, _, _)
StageImage(bs, s, d) ==
  IF s = 0 THEN EmptyMemory
  ELSE LET rest == StageImage(bs, s - 1, d)
           cells == {j \in 1..Len(bs[s]) : bs[s][j] # d}
       IN [a \in (DOMAIN rest) \cup {StageFlatIndex(s - 1, j - 1) : j \in cells} |->
             IF a \in DOMAIN rest THEN rest[a]
             ELSE bs[s][a - StageFlatIndex(s - 1, 0) + 1]]

Program(n, st, pat, msk) ==
  [stage_count |-> n, stages |-> StageTable(st),
   patterns |-> StageImage(pat, Len(pat), 0),
   masks |-> StageImage(msk, Len(msk), 255)]

TriggerBytes == {170, 186}

TriggerPrograms ==
  { Program(1, <<Stage(1, 2)>>, <<<<170, 186>>>>, <<<<255, 255>>>>),
    Program(1, <<Stage(0, 1)>>, <<<<26>>>>, <<<<15>>>>),
    Program(1, <<Stage(0, 2)>>, <<<<186, 186>>>>, <<<<240, 255>>>>),
    Program(1, <<Stage(0, 0)>>, <<<<170>>>>, <<<<255>>>>),
    Program(2, <<Stage(0, 1), Stage(1, 1)>>, <<<<170>>, <<186>>>>, <<<<255>>, <<255>>>>),
    Program(2, <<Stage(1, 1), Stage(0, 2)>>, <<<<186>>, <<170, 170>>>>,
            <<<<255>>, <<255, 15>>>>),
    Program(3, <<Stage(0, 1), Stage(0, 1), Stage(0, 1)>>,
            <<<<170>>, <<186>>, <<170>>>>, <<<<255>>, <<240>>, <<255>>>>) }

InitTriggerInputs ==
  /\ rx_active = FALSE /\ rx_valid = FALSE /\ rx_data = 0
  /\ capture_enable = TRUE
  /\ session_valid = TRUE /\ speed_selection = 0
  /\ event_strobe = FALSE /\ event_code_in = 0
  /\ pwrite = NoPatternWrite
  /\ stream_ready = TRUE
  /\ setup = NoSetup /\ hif = NoStrobe

InitConfigured(p, oe, en, ar) ==
  /\ enable = en /\ armed = ar /\ output_enable = oe
  /\ stage_count = p.stage_count
  /\ stage_offsets = [i \in Stages |-> p.stages[i].offset]
  /\ stage_lengths = [i \in Stages |-> p.stages[i].length]
  /\ patterns_flat = EmptyMemory
  /\ masks_flat = EmptyMemory
  /\ pattern_memory = p.patterns
  /\ mask_memory = p.masks

\* An enabled and armed trigger.
InitProgrammed(p, oe) == InitConfigured(p, oe, TRUE, TRUE)

InitTrig ==
  /\ InitTriggerInputs
  /\ InitAnalyzer(Pow2(AddrBits))
  /\ InitHandler
  /\ \E p \in TriggerPrograms : InitProgrammed(p, TRUE)
  /\ InitGhost(FALSE)

TriggerEnv ==
  {[WithRx(QuietInputs, r) EXCEPT !.capture_enable = TRUE, !.stream_ready = TRUE] :
     r \in RxSignals(TriggerBytes)}

TrigSyncEdge == SyncEdge(TRUE)

TrigUsbEdge == ticks < MaxTrigTicks /\ \E e \in TriggerEnv : UsbEdge(e)

NextTrig == TrigSyncEdge \/ TrigUsbEdge

SpecTrig == InitTrig /\ [][NextTrig]_vars

\* ------------------------------------------------ babble specification
\* Full-size buffer, reader keeping up, and a byte source that keeps
\* rx_active / rx_valid asserted past the longest legal packet.
BabbleBytes == {0}

InitBabble ==
  /\ InitTriggerInputs
  /\ InitAnalyzer(DefaultMemDepth)
  /\ InitMemories
  /\ InitHandler
  /\ InitTriggerConfig
  /\ InitGhost(FALSE)

BabbleEnv ==
  {[WithRx(QuietInputs, r) EXCEPT !.capture_enable = TRUE, !.stream_ready = TRUE] :
     r \in IF ticks < MAX_PACKET_SIZE_BYTES + 2
           THEN {[rx_active |-> TRUE, rx_valid |-> TRUE, rx_data |-> b] : b \in BabbleBytes}
           ELSE RxSignals(BabbleBytes)}

BabbleSyncEdge == SyncEdge(TRUE)

BabbleUsbEdge == ticks < MaxBabbleTicks /\ \E e \in BabbleEnv : UsbEdge(e)

NextBabble == BabbleSyncEdge \/ BabbleUsbEdge

SpecBabble == InitBabble /\ [][NextBabble]_vars

\* C4: every committed packet record has a length field whose high byte is
\* below 0xFF, the recorded packet_size never exceeding the 1027-byte maximum.
C4_PacketLengthBounded ==
  wfsm = "FINISH_HEADER"
    => /\ packet_size <= MAX_PACKET_SIZE_BYTES
       /\ HighByte(packet_size) < 255

\* ------------------------------------------------ control specification
\* A two-stage program is in place and capture runs; the host interleaves
\* SET_TRIGGER_CONTROL, ARM_TRIGGER and DISARM_TRIGGER transfers, and may
\* stop the capture, while packets arrive.
ControlProgram ==
  Program(2, <<Stage(0, 1), Stage(0, 1)>>, <<<<170>>, <<186>>>>, <<<<255>>, <<240>>>>)

\* Payload bytes the host sends: flags, then stage_count.
ControlPayloads == <<{0, 1}, {0, 9}>>

InitCtl ==
  /\ InitTriggerInputs
  /\ InitAnalyzer(Pow2(AddrBits))
  /\ InitHandler
  /\ InitProgrammed(ControlProgram, TRUE)
  /\ InitGhost(FALSE)

VendorSetup(r) == [vendor |-> TRUE, request |-> r, value |-> 0]

\* What the host can present in the next usb cycle, given the handler
\* state that cycle starts in: a new request (or a capture stop) when the
\* handler is idle, otherwise the next step of the transfer in progress.
HostStep(h, ce) == [setup |-> setup, hif |-> h, capture_enable |-> ce]

HostSignals ==
  IF next_hstate = "IDLE"
  THEN {HostStep(NoStrobe, TRUE), HostStep(NoStrobe, FALSE)}
       \cup {[setup |-> VendorSetup(r),
              hif |-> [NoStrobe EXCEPT !.setup_received = TRUE],
              capture_enable |-> TRUE] :
               r \in {SET_TRIGGER_CONTROL, ARM_TRIGGER, DISARM_TRIGGER}}
  ELSE IF next_hstate = "SET_TRIGGER_CONTROL" /\ next_rx_count < TRIGGER_CONTROL_PAYLOAD_LEN
  THEN {HostStep([NoStrobe EXCEPT !.rx_valid = TRUE, !.rx_next = TRUE,
                                  !.rx_payload = b], TRUE) :
          b \in ControlPayloads[next_rx_count + 1]}
  ELSE IF next_hstate = "SET_TRIGGER_CONTROL"
  THEN {HostStep([NoStrobe EXCEPT !.rx_ready_for_response = TRUE], TRUE),
        HostStep([NoStrobe EXCEPT !.status_requested = TRUE], TRUE)}
  ELSE {HostStep([NoStrobe EXCEPT !.status_requested = TRUE], TRUE)}

ControlEnv ==
  {[WithRx(QuietInputs, r) EXCEPT !.capture_enable = h.capture_enable,
                                  !.stream_ready = TRUE,
                                  !.setup = h.setup, !.hif = h.hif] :
     r \in PacketSignals(TriggerBytes), h \in HostSignals}

CtlSyncEdge == SyncEdge(TRUE)

CtlUsbEdge == ticks < MaxCtlTicks /\ \E e \in ControlEnv : UsbEdge(e)

NextCtl == CtlSyncEdge \/ CtlUsbEdge

SpecCtl == InitCtl /\ [][NextCtl]_vars

\* --------------------------------------------------- trigger properties
packet_end == phase = 1 /\ write_header

\* C5: with the trigger enabled and armed, stage_count = 1 and stage 0
\* programmed with offset o, length k >= 1 and pattern / mask bytes (held in
\* the matcher's pattern and mask memories), a captured packet fires the
\* trigger at its end exactly when it has at least o + k bytes and every
\* window byte equals its pattern byte under the mask.
C5_SingleStageMatch ==
  [][(packet_end /\ enable /\ armed /\ stage_count = 1 /\ stage_lengths[0] >= 1)
       => (trigger_fire_strobe' <=> PacketMatchesStage(pkt, 0))]_vars

\* A single-stage program fired on a packet whose window byte differs from
\* the pattern byte in bits the mask ignores.
C5_Witness ==
  /\ trigger_fire_strobe
  /\ stage_count = 1
  /\ Rd(mask_memory, 0, 255) = 15
  /\ Len(pkt) >= 1
  /\ pkt[1] # Rd(pattern_memory, 0, 0)

\* C7: with stage_count = N >= 2 the trigger fires only at the end of a
\* packet that fully matches stage N - 1 after stages 0 .. N - 2 were each
\* fully matched by earlier packets in order; a full match of a non-final
\* stage advances the sequence by one without firing; firing returns the
\* sequence to stage 0.
C7_SequenceFollowsRule ==
  (enable /\ armed /\ stage_count >= 2)
    => /\ seq_expected_stage = ref_stage
       /\ trigger_fire_strobe = ref_fired
       /\ (trigger_fire_strobe => seq_expected_stage = 0)

\* A three-stage program fired.
C7_Witness ==
  /\ stage_count = 3
  /\ trigger_fire_strobe
  /\ ref_fired
  /\ trigger_fire_count = 1

\* C10: one packet advances the sequence by at most one stage: across a
\* packet end the expected stage goes up by exactly one, returns to 0, or
\* stays.
C10_OneStagePerPacket ==
  [][packet_end
       => \/ seq_expected_stage' = seq_expected_stage + 1
          \/ seq_expected_stage' = 0
          \/ seq_expected_stage' = seq_expected_stage]_vars

\* A packet that carried the bytes of stage 0 and of stage 1 advanced the
\* sequence to stage 1 only.
C10_Witness ==
  /\ stage_count = 2
  /\ end_stage = 0
  /\ seq_expected_stage = 1
  /\ fsm = "AWAIT_PACKET"
  /\ trigger_fire_count = 0
  /\ Len(pkt) >= 1
  /\ PacketMatchesStage(pkt, 0)
  /\ PacketMatchesStage(pkt, 1)

\* --------------------------------------------------- control properties
\* The packet now ending fully matches the stage the sequence expects.
ending_packet_matches ==
  /\ enable /\ armed
  /\ seq_expected_stage < stage_count
  /\ seq_expected_stage < TRIGGER_MAX_STAGES
  /\ stage_lengths[active_stage_index] > 0
  /\ PacketMatchesStage(pkt, active_stage_index)

\* C8: a packet that does not fully match the active stage leaves the
\* expected stage unchanged; the expected stage returns to 0 only on arm,
\* disarm, disable, capture stop or a final-stage firing.
C8_MismatchKeepsStage ==
  [][/\ (packet_end /\ ~ending_packet_matches
           => seq_expected_stage' = seq_expected_stage)
     /\ (seq_expected_stage # 0 /\ seq_expected_stage' = 0
           => \/ arm_strobe \/ disarm_strobe
              \/ ~enable \/ ~armed
              \/ fsm = "AWAIT_START"
              \/ fire)]_vars

\* With the trigger enabled and armed, a packet ended at stage 1 without
\* matching it and the sequence still expects stage 1.
C8_Witness ==
  /\ enable /\ armed /\ stage_count = 2
  /\ fsm = "AWAIT_PACKET"
  /\ end_stage = 1
  /\ seq_expected_stage = 1
  /\ Len(pkt) >= 1
  /\ ~PacketMatchesStage(pkt, 1)

\* C9: in every reachable state the expected stage is at most stage_count,
\* and stage_count at most MAX_STAGES, under any interleaving of packets
\* with SET_TRIGGER_CONTROL, ARM_TRIGGER and DISARM_TRIGGER.
C9_StageWithinCount ==
  /\ seq_expected_stage <= stage_count
  /\ stage_count <= TRIGGER_MAX_STAGES

\* ------------------------------------------------- stage-table specification
\* The host programs stages with SET_TRIGGER_STAGE and reads them back with
\* GET_TRIGGER_STAGE; the pattern / mask write ports are driven as well.
StagePayloads == {0, 1, 170}
StageValues == {0, 1, 9}

PortWrites ==
  {NoPatternWrite,
   [NoPatternWrite EXCEPT !.pattern_en = TRUE, !.pattern_addr = 0, !.pattern_data = 170],
   [NoPatternWrite EXCEPT !.mask_en = TRUE, !.mask_addr = 0, !.mask_data = 240]}

StageHostSignals ==
  IF next_hstate = "IDLE"
  THEN {[setup |-> setup, hif |-> NoStrobe]}
       \cup {[setup |-> [vendor |-> TRUE, request |-> r, value |-> v],
              hif |-> [NoStrobe EXCEPT !.setup_received = TRUE]] :
               r \in {SET_TRIGGER_STAGE, GET_TRIGGER_STAGE}, v \in StageValues}
  ELSE IF next_hstate = "SET_TRIGGER_STAGE"
  THEN {[setup |-> setup,
         hif |-> [NoStrobe EXCEPT !.rx_valid = TRUE, !.rx_next = TRUE,
                                  !.rx_payload = b]] : b \in StagePayloads}
       \cup {[setup |-> setup, hif |-> [NoStrobe EXCEPT !.status_requested = TRUE]]}
  ELSE {[setup |-> setup, hif |-> [NoStrobe EXCEPT !.data_requested = TRUE]],
        [setup |-> setup, hif |-> [NoStrobe EXCEPT !.status_requested = TRUE]]}

StageEnv ==
  {[QuietInputs EXCEPT !.stream_ready = TRUE, !.pwrite = w,
                       !.setup = h.setup, !.hif = h.hif] :
     w \in PortWrites, h \in StageHostSignals}

InitStage ==
  /\ InitInputs
  /\ InitAnalyzer(Pow2(AddrBits))
  /\ InitMemories
  /\ InitHandler
  /\ InitTriggerConfig
  /\ InitGhost(FALSE)

StageSyncEdge == SyncEdge(TRUE)

StageUsbEdge == ticks < MaxStageTicks /\ \E e \in StageEnv : UsbEdge(e)

NextStage == StageSyncEdge \/ StageUsbEdge

SpecStage == InitStage /\ [][NextStage]_vars

\* C6: the tables the vendor handler writes are the tables the match
\* pipeline reads: every pattern / mask byte SET_TRIGGER_STAGE has stored
\* (the store GET_TRIGGER_STAGE reads back) is the byte the matcher's
\* lookup returns at the same flat index.
C6_TablesAgree ==
  /\ \A a \in DOMAIN patterns_flat : Rd(pattern_memory, a, 0) = patterns_flat[a]
  /\ \A a \in DOMAIN masks_flat : Rd(mask_memory, a, 255) = masks_flat[a]

\* ------------------------------------------- arm, disarm and disable
\* C11: an arm strobe, a disarm strobe or a cleared enable takes
\* seq_expected_stage to 0 within ResetLatency usb cycles, in every state of
\* the capture FSM (also while a packet is captured and in OVERRUN).
C11_ResetIsPrompt == reset_age <= ResetLatency

\* Completions of the requests that touch armed, read from the host
\* interface and the payload bytes the host sent.
arm_completed ==
  setup.vendor /\ hstate = "ARM_TRIGGER" /\ hif.status_requested

disarm_completed ==
  setup.vendor /\ hstate = "DISARM_TRIGGER" /\ hif.status_requested

control_written ==
  /\ setup.vendor /\ hstate = "SET_TRIGGER_CONTROL"
  /\ hif.rx_ready_for_response
  /\ Len(rx_log) >= TRIGGER_CONTROL_PAYLOAD_LEN

\* C12: armed is set by a completed ARM_TRIGGER and cleared by a completed
\* DISARM_TRIGGER or a SET_TRIGGER_CONTROL that writes enable = 0; nothing
\* else (a firing, a capture stop, SET_TRIGGER_CONTROL with enable = 1)
\* changes it.  Hence armed = 1 exactly when an ARM_TRIGGER completed since
\* the latest DISARM_TRIGGER and the latest disabling SET_TRIGGER_CONTROL.
C12_ArmedFollowsRequests ==
  [][armed' =
       IF phase = 1 /\ arm_completed THEN TRUE
       ELSE IF phase = 1 /\ (disarm_completed
                              \/ (control_written /\ rx_log[1] % 2 = 0))
         THEN FALSE
       ELSE armed]_vars

\* A firing has happened and the trigger is still armed.
C12_Witness ==
  /\ trigger_fire_strobe /\ trigger_fire_count = 1
  /\ armed /\ seq_expected_stage = 0

\* ------------------------------------------------------- capture stop
\* C13: with capture_enable cleared the capture FSM goes to AWAIT_START as
\* soon as no packet is in flight (CAPTURE_PACKET leaves at the end of the
\* packet, AWAIT_PACKET and OVERRUN leave at once), and the usb cycle after
\* any cycle spent in AWAIT_START the timestamp counter, the sequence stage,
\* stage_match_count, stage_mismatch, the pending compare and the pending
\* trigger event are all zero.
C13_StopClearsPipeline ==
  [][phase = 1 =>
       /\ (~capture_enable /\ fsm \in {"AWAIT_PACKET", "OVERRUN"}
             => fsm' = "AWAIT_START")
       /\ (~capture_enable /\ fsm = "CAPTURE_PACKET" /\ ~rx_active
             => fsm' = "AWAIT_PACKET")
       /\ (fsm = "AWAIT_START"
             => /\ current_time' = 0
                /\ seq_expected_stage' = 0
                /\ stage_match_count' = 0
                /\ stage_mismatch' = FALSE
                /\ pending_stage_compare' = FALSE
                /\ pending_trigger_event' = FALSE)]_vars

\* Capture was stopped after a packet had advanced the sequence to stage 1
\* (no host request was ever issued), and AWAIT_START has cleared it.
C13_Witness ==
  /\ fsm = "AWAIT_START" /\ ~capture_enable
  /\ setup = NoSetup /\ enable /\ armed
  /\ end_stage = 0 /\ Len(pkt) >= 1 /\ PacketMatchesStage(pkt, 0)
  /\ seq_expected_stage = 0 /\ current_time = 0

\* ------------------------------------------- fire-counter specification
\* A one-stage program that every packet of the run matches: the one-byte
\* packet 0xAA is sent every fourth usb cycle (start, byte, end, and one
\* idle cycle in which the trigger-fired event is written) and the reader
\* keeps up.  trigger_fire_count is written by the firing increment only and
\* survives capture stop and restart, so a capture session can begin with
\* any count; the sessions explored begin with the counts in WrapStarts
\* (0xFFFE is what 65,534 periods of this input leave behind).
WrapStarts == {0, Pow2(16) - 2}

WrapProgram == Program(1, <<Stage(0, 1)>>, <<<<170>>>>, <<<<255>>>>)

InitWrap ==
  /\ InitTriggerInputs
  /\ \E c \in WrapStarts : InitAnalyzerCounting(Pow2(AddrBits), c)
  /\ InitHandler
  /\ InitProgrammed(WrapProgram, TRUE)
  /\ InitGhost(FALSE)

\* The host polls the trigger status at any time.
StatusHostSignals ==
  IF next_hstate = "IDLE"
  THEN {[setup |-> setup, hif |-> NoStrobe],
        [setup |-> VendorSetup(GET_TRIGGER_STATUS),
         hif |-> [NoStrobe EXCEPT !.setup_received = TRUE]]}
  ELSE {[setup |-> setup, hif |-> [NoStrobe EXCEPT !.data_requested = TRUE]],
        [setup |-> setup, hif |-> [NoStrobe EXCEPT !.status_requested = TRUE]]}

WrapEnv ==
  {[WithRx(QuietInputs, r) EXCEPT !.capture_enable = TRUE, !.stream_ready = TRUE,
                                  !.setup = h.setup, !.hif = h.hif] :
     r \in {[rx_active |-> ticks % 4 \in {0, 1}, rx_valid |-> ticks % 4 \in {0, 1},
             rx_data |-> IF ticks % 4 \in {0, 1} THEN 170 ELSE 0]},
     h \in StatusHostSignals}

WrapSyncEdge == SyncEdge(TRUE)

WrapUsbEdge == ticks < MaxWrapTicks /\ \E e \in WrapEnv : UsbEdge(e)

NextWrap == WrapSyncEdge \/ WrapUsbEdge

SpecWrap == InitWrap /\ [][NextWrap]_vars

\* C14: trigger_fire_count is a 16-bit saturating counter: a firing adds
\* one below 0xFFFF and leaves 0xFFFF unchanged.
C14_FireCountSaturates ==
  [][phase = 1 /\ trigger_fire_strobe' =>
       trigger_fire_count' =
         IF trigger_fire_count = Pow2(16) - 1 THEN Pow2(16) - 1
         ELSE trigger_fire_count + 1]_vars

\* ------------------------------------------------- firing specification
\* One-byte packets 0xAA against the one-stage program, interleaved with
\* capture stop and external events, for every way of gating the trigger:
\* enabled and armed (with and without output_enable), disabled, disarmed,
\* stage_count = 0, and an active stage of length 0.
EmptyProgram == Program(0, <<Stage(0, 1)>>, <<<<170>>>>, <<<<255>>>>)
ZeroLengthProgram == Program(1, <<Stage(0, 0)>>, <<<<170>>>>, <<<<255>>>>)

FireConfigs ==
  { [program |-> WrapProgram, output_enable |-> TRUE, enable |-> TRUE, armed |-> TRUE],
    [program |-> WrapProgram, output_enable |-> FALSE, enable |-> TRUE, armed |-> TRUE],
    [program |-> WrapProgram, output_enable |-> TRUE, enable |-> FALSE, armed |-> TRUE],
    [program |-> WrapProgram, output_enable |-> TRUE, enable |-> TRUE, armed |-> FALSE],
    [program |-> EmptyProgram, output_enable |-> TRUE, enable |-> TRUE, armed |-> TRUE],
    [program |-> ZeroLengthProgram, output_enable |-> TRUE, enable |-> TRUE,
     armed |-> TRUE] }

InitFire ==
  /\ InitTriggerInputs
  /\ InitAnalyzer(Pow2(AddrBits))
  /\ InitHandler
  /\ \E g \in FireConfigs :
       InitConfigured(g.program, g.output_enable, g.enable, g.armed)
  /\ InitGhost(FALSE)

FireEnv ==
  {[WithRx(QuietInputs, r) EXCEPT !.capture_enable = ce, !.stream_ready = TRUE] :
     r \in PacketSignals({170}), ce \in BOOLEAN}
  \cup
  {[QuietInputs EXCEPT !.capture_enable = TRUE, !.stream_ready = TRUE,
                       !.event_strobe = TRUE, !.event_code_in = c] :
     c \in ExternalEventCodes}

FireSyncEdge == SyncEdge(TRUE)

FireUsbEdge == ticks < MaxFireTicks /\ \E e \in FireEnv : UsbEdge(e)

NextFire == FireSyncEdge \/ FireUsbEdge

SpecFire == InitFire /\ [][NextFire]_vars

\* C15: trigger_fire_count equals the number of trigger-fired records
\* written since reset, counting the record still owed for the latest
\* firing (pending_trigger_event): every increment is followed by exactly
\* one trigger-fired record.
C15_FireCountMatchesRecords ==
  trigger_fire_count = fired_records + BoolBit(pending_trigger_event)

\* C16: trigger_fire_strobe is high for exactly the usb cycle that follows
\* a firing (the edge that increments trigger_fire_count), and while a
\* trigger-fired record is owed the next record written is that record:
\* no packet is begun and no external-event, rollover, stop or start record
\* is written before it.
C16_FiredRecordIsNext ==
  [][phase = 1 =>
       /\ trigger_fire_strobe' = (trigger_fire_count' # trigger_fire_count)
       /\ (pending_trigger_event /\ (write_event \/ new_packet)
             => write_event /\ event_code = TRIGGER_FIRED)]_vars

C18_GatedPacketIsInert ==
  [][phase = 1 /\ write_header
       /\ (~enable \/ ~armed \/ stage_count = 0
             \/ stage_lengths[seq_expected_stage % TRIGGER_MAX_STAGES] = 0)
     => /\ trigger_fire_count' = trigger_fire_count
        /\ trigger_toggle_out' = trigger_toggle_out
        /\ pending_trigger_event' = pending_trigger_event
        /\ seq_expected_stage' = seq_expected_stage
        /\ ~trigger_fire_strobe']_vars

\* A packet matching stage 0 has ended with the trigger disabled (armed,
\* one stage programmed) and nothing fired.
C18_Witness ==
  /\ ~enable /\ armed /\ stage_count = 1 /\ stage_lengths[0] = 1
  /\ fsm = "AWAIT_PACKET" /\ Len(pkt) >= 1 /\ PacketMatchesStage(pkt, 0)
  /\ packet_size = Len(pkt)
  /\ trigger_fire_count = 0 /\ ~trigger_toggle_out /\ ~pending_trigger_event

\* --------------------------------------------------------- status read
\* C19: the data stage of GET_TRIGGER_STATUS returns 5 bytes: the flags
\* (bit 0 enable, bit 1 armed, bit 2 output_enable, bit 3 trigger_out,
\* bits 4-7 zero), sequence_stage, fire_count low byte, fire_count high
\* byte and stage_count, whatever the values of those signals.
C19_StatusLayout ==
  vendor_selected /\ hstate = "GET_TRIGGER_STATUS" /\ hif.data_requested
    => \A r \in StatusResponses :
         r = << BoolBit(enable) + 2 * BoolBit(armed) + 4 * BoolBit(output_enable)
                  + 8 * BoolBit(trigger_toggle_out),
                seq_expected_stage,
                trigger_fire_count % 256,
                trigger_fire_count \div 256,
                stage_count >>

\* ------------------------------------------------------ control commit
\* C20: a SET_TRIGGER_CONTROL transfer whose two payload bytes (flags,
\* stage count) were delivered commits enable = flags bit 0, output_enable
\* = flags bit 1 and stage_count = min(stage count byte, 8).  With flags
\* bit 0 clear it also clears armed and pulses the disarm strobe; with
\* flags bit 0 set it leaves armed unchanged and pulses no strobe.
C20_ControlCommit ==
  [][phase = 1 /\ control_written =>
       LET flags == rx_log[1]
           count == rx_log[2]
       IN /\ enable' = (Bit(flags, 0) = 1)
          /\ output_enable' = (Bit(flags, 1) = 1)
          /\ stage_count' =
               IF count > TRIGGER_MAX_STAGES THEN TRIGGER_MAX_STAGES ELSE count
          /\ (Bit(flags, 0) = 0 => ~armed' /\ disarm_strobe /\ ~arm_strobe)
          /\ (Bit(flags, 0) = 1
                => armed' = armed /\ ~disarm_strobe /\ ~arm_strobe)]_vars

\* The payload (flags 0x01, stage count 9) has been committed: the trigger
\* stays enabled and armed, output_enable is cleared, stage_count is 8.
C20_Witness ==
  /\ rx_log = <<1, 9>>
  /\ enable /\ armed /\ ~output_enable
  /\ stage_count = TRIGGER_MAX_STAGES

\* ------------------------------------------------------ short payloads
\* C21: SET_TRIGGER_CONTROL with fewer than 2 bytes and SET_TRIGGER_STAGE
\* with fewer than 68 bytes are stalled at the status stage, and no trigger
\* register changes before the payload is complete (enable, output_enable,
\* stage_count, armed; the stage offsets, lengths, patterns and masks).
C21_ShortPayloadChangesNothing ==
  [][phase = 1 /\ vendor_selected =>
       /\ (hstate = "SET_TRIGGER_CONTROL" /\ rx_count < TRIGGER_CONTROL_PAYLOAD_LEN
             => /\ UNCHANGED <<enable, output_enable, stage_count, armed>>
                /\ (hif.status_requested => handshake_stall))
       /\ (hstate = "SET_TRIGGER_STAGE" /\ rx_count < TRIGGER_STAGE_PAYLOAD_LEN
             => /\ (hif.status_requested => handshake_stall)
                /\ (rx_count + BoolBit(rx_byte) < TRIGGER_STAGE_PAYLOAD_LEN
                      => UNCHANGED <<stage_offsets, stage_lengths,
                                     patterns_flat, masks_flat>>))]_vars

\* ------------------------------------------------- stage index checks
\* C22: SET_TRIGGER_STAGE and GET_TRIGGER_STAGE with a stage index (low
\* byte of wValue) of 8 or more change no trigger register -- in particular
\* not the stage the index truncates to -- and every handshake of the
\* transfer is a STALL.
C22_BadIndexIsStalled ==
  [][/\ phase = 1 /\ setup.vendor
     /\ hstate \in {"SET_TRIGGER_STAGE", "GET_TRIGGER_STAGE"}
     /\ setup.value % 256 >= TRIGGER_MAX_STAGES
     => /\ UNCHANGED <<stage_offsets, stage_lengths, patterns_flat, masks_flat,
                       enable, output_enable, stage_count, armed>>
        /\ ~send_zlp
        /\ (hif.status_requested => handshake_stall)
        /\ (hstate = "SET_TRIGGER_STAGE" /\ hif.rx_ready_for_response
              => handshake_stall)
        /\ (hstate = "GET_TRIGGER_STAGE" /\ hif.data_requested
              => handshake_stall)]_vars

\* A payload byte was delivered to SET_TRIGGER_STAGE with index 9 and
\* stage 1 (9 truncated to 3 bits) still has its reset offset.
C22_Witness ==
  /\ setup = [vendor |-> TRUE, request |-> SET_TRIGGER_STAGE, value |-> 9]
  /\ hstate = "SET_TRIGGER_STAGE"
  /\ rx_log = <<1>>
  /\ stage_offsets[1] = 0

\* C23: every stage length is at most TRIGGER_MAX_PATTERN_BYTES in every
\* state: SET_TRIGGER_STAGE stores min(length byte, 32), and the window the
\* matcher uses for the active stage is never longer than 32 bytes.
C23_LengthClamped ==
  [][/\ \A i \in Stages : stage_lengths'[i] <= TRIGGER_MAX_PATTERN_BYTES
     /\ active_stage_len' <= TRIGGER_MAX_PATTERN_BYTES
     /\ (/\ phase = 1 /\ setup.vendor /\ hstate = "SET_TRIGGER_STAGE"
         /\ setup.value % 256 < TRIGGER_MAX_STAGES
         /\ hif.rx_valid /\ hif.rx_next /\ rx_count = 2
         => stage_lengths'[setup.value % 256] =
              IF hif.rx_payload > TRIGGER_MAX_PATTERN_BYTES
              THEN TRIGGER_MAX_PATTERN_BYTES ELSE hif.rx_payload)]_vars

\* The length byte 170 was written to stage 1 and is stored as 32.
C23_Witness ==
  /\ setup = [vendor |-> TRUE, request |-> SET_TRIGGER_STAGE, value |-> 1]
  /\ rx_count = 3
  /\ stage_lengths[1] = TRIGGER_MAX_PATTERN_BYTES

\* ---------------------------------------------- round-trip specification
\* On the reset configuration the host sends one complete SET_TRIGGER_STAGE
\* (68 payload bytes, then the handshake and status stages) for a stage in
\* RoundIndexes and then reads stages back with GET_TRIGGER_STAGE.  The
\* payload is chosen by its first byte: byte k is (first * (k + 1)) mod 256,
\* which gives a length byte below and above 32 and a non-zero reserved
\* byte.
RoundIndexes == {1, 7}
RoundSeeds == {1, 170}

PayloadByte(first, k) == (first * (k + 1)) % 256

RoundHostSignals ==
  IF next_hstate = "IDLE"
  THEN {[setup |-> [vendor |-> TRUE, request |-> r, value |-> v],
         hif |-> [NoStrobe EXCEPT !.setup_received = TRUE]] :
          r \in {IF next_rx_setup.vendor THEN GET_TRIGGER_STAGE ELSE SET_TRIGGER_STAGE},
          v \in RoundIndexes}
  ELSE IF next_hstate = "SET_TRIGGER_STAGE" /\ next_rx_count < TRIGGER_STAGE_PAYLOAD_LEN
  THEN {[setup |-> setup,
         hif |-> [NoStrobe EXCEPT !.rx_valid = TRUE, !.rx_next = TRUE,
                                  !.rx_payload = b]] :
          b \in IF next_rx_count = 0 THEN RoundSeeds
                ELSE {PayloadByte(next_rx_log[1], next_rx_count)}}
  ELSE IF next_hstate = "SET_TRIGGER_STAGE"
  THEN {[setup |-> setup, hif |-> [NoStrobe EXCEPT !.rx_ready_for_response = TRUE]],
        [setup |-> setup, hif |-> [NoStrobe EXCEPT !.status_requested = TRUE]]}
  ELSE {[setup |-> setup, hif |-> [NoStrobe EXCEPT !.data_requested = TRUE]],
        [setup |-> setup, hif |-> [NoStrobe EXCEPT !.status_requested = TRUE]]}

RoundEnv ==
  {[QuietInputs EXCEPT !.stream_ready = TRUE, !.setup = h.setup, !.hif = h.hif] :
     h \in RoundHostSignals}

RoundSyncEdge == SyncEdge(TRUE)

RoundUsbEdge == ticks < MaxRoundTicks /\ \E e \in RoundEnv : UsbEdge(e)

NextRound == RoundSyncEdge \/ RoundUsbEdge

SpecRound == InitStage /\ [][NextRound]_vars

\* C24: after a complete SET_TRIGGER_STAGE for a valid stage i, the data
\* stage of GET_TRIGGER_STAGE for i returns the 68 bytes that were sent,
\* with the length replaced by min(length, 32) and the reserved byte by 0;
\* GET_TRIGGER_STAGE for another stage returns that stage's earlier
\* contents (here the reset contents: offset 0, length 0, pattern bytes 0,
\* mask bytes 0xFF).
C24_StageRoundTrip ==
  /\ setup.vendor /\ hstate = "GET_TRIGGER_STAGE" /\ hif.data_requested
  /\ rx_setup.vendor /\ rx_setup.request = SET_TRIGGER_STAGE
  /\ Len(rx_log) = TRIGGER_STAGE_PAYLOAD_LEN
  => StageResponse =
       IF setup.value = rx_setup.value
       THEN [k \in 1..TRIGGER_STAGE_PAYLOAD_LEN |->
               IF k = 3
               THEN (IF rx_log[3] > TRIGGER_MAX_PATTERN_BYTES
                     THEN TRIGGER_MAX_PATTERN_BYTES ELSE rx_log[3])
               ELSE IF k = 4 THEN 0
               ELSE rx_log[k]]
       ELSE [k \in 1..TRIGGER_STAGE_PAYLOAD_LEN |->
               IF k <= 4 + TRIGGER_MAX_PATTERN_BYTES THEN 0 ELSE 255]

\* Stage 7 was written with the payload that starts with 170 (length byte
\* 254, stored as 32) and is being read back.
C24_Witness ==
  /\ setup = [vendor |-> TRUE, request |-> GET_TRIGGER_STAGE, value |-> 7]
  /\ hstate = "GET_TRIGGER_STAGE" /\ hif.data_requested
  /\ rx_setup.value = 7 /\ Len(rx_log) = TRIGGER_STAGE_PAYLOAD_LEN
  /\ rx_log[1] = 170 /\ rx_log[3] = 254
  /\ StageResponse[3] = TRIGGER_MAX_PATTERN_BYTES

\* ------------------------------------------------- ARM / DISARM requests
arm_status_stage ==
  setup.vendor /\ hstate = "ARM_TRIGGER" /\ hif.status_requested

disarm_status_stage ==
  setup.vendor /\ hstate = "DISARM_TRIGGER" /\ hif.status_requested

ArmDisarmActAtStatus ==
  /\ arm_status_stage =>
        arm_strobe /\ send_zlp /\ armed' /\ hstate' = "IDLE"
  /\ disarm_status_stage =>
        disarm_strobe /\ send_zlp /\ ~armed' /\ hstate' = "IDLE"
  /\ hstate \in {"ARM_TRIGGER", "DISARM_TRIGGER"} /\ ~hif.status_requested =>
        /\ ~arm_strobe /\ ~disarm_strobe /\ ~send_zlp
        /\ armed' = armed /\ hstate' = hstate

ClaimCodes == {SET_TRIGGER_CONTROL, ARM_TRIGGER, DISARM_TRIGGER, 8, 13}

ClaimHostSignals ==
  {[setup |-> [vendor |-> v, request |-> r, value |-> 0],
    hif |-> [NoStrobe EXCEPT !.setup_received = TRUE]] :
     v \in BOOLEAN, r \in ClaimCodes}
  \cup {[setup |-> setup, hif |-> h] :
          h \in {NoStrobe,
                 [NoStrobe EXCEPT !.status_requested = TRUE],
                 [NoStrobe EXCEPT !.data_requested = TRUE],
                 [NoStrobe EXCEPT !.rx_ready_for_response = TRUE],
                 [NoStrobe EXCEPT !.rx_valid = TRUE, !.rx_next = TRUE,
                                  !.rx_payload = 3]}}

ClaimEnv ==
  {[QuietInputs EXCEPT !.stream_ready = TRUE, !.setup = h.setup, !.hif = h.hif] :
     h \in ClaimHostSignals}

ClaimSyncEdge == SyncEdge(TRUE)

ClaimUsbEdge == ticks < MaxClaimTicks /\ \E e \in ClaimEnv : UsbEdge(e)

NextClaim == ClaimSyncEdge \/ ClaimUsbEdge

SpecClaim == InitStage /\ [][NextClaim]_vars

listed_request == setup.vendor /\ setup.request \in ClaimedRequests

\* C26: the handler claims a setup packet only when it passes the VENDOR /
\* INTERFACE / wIndex = 0 test and its request code is one of 0..7, 9..12;
\* any other setup packet received while the handler is idle is not claimed
\* and changes no register of the handler or the trigger configuration.
C26_ClaimsOnlyListedRequests ==
  [][phase = 1 =>
       /\ claim => listed_request
       /\ hstate = "IDLE" /\ hif.setup_received /\ ~listed_request =>
            ~claim /\ UNCHANGED handlerVars]_vars

\* The part of C26 about an idle handler, taken alone.
IdleHandlerIgnoresUnlisted ==
  [][phase = 1 /\ hstate = "IDLE" /\ hif.setup_received /\ ~listed_request =>
       ~claim /\ UNCHANGED handlerVars]_vars

\* ------------------------------------------------------ stopping a capture
\* C27: clearing capture_enable ends the capture session from any capture
\* state: from AWAIT_PACKET and OVERRUN the FSM goes to AWAIT_START at once
\* (from CAPTURE_PACKET, when it does), and in the cycle in which the FSM
\* returns to AWAIT_START one capture-stop event with the current timestamp
\* is written.
C27_StopRecordOnEveryExit ==
  [][phase = 1 =>
       /\ fsm \in {"AWAIT_PACKET", "OVERRUN"} /\ ~capture_enable =>
            fsm' = "AWAIT_START"
       /\ fsm # "AWAIT_START" /\ fsm' = "AWAIT_START" =>
            /\ write_event /\ event_code = CAPTURE_STOP_NORMAL
            /\ logging =>
                 /\ emitted # <<>>
                 /\ emitted[Len(emitted)] =
                      EventRecord(CAPTURE_STOP_NORMAL, current_time)]_vars

\* ------------------------------------------------------------- overrun
OverrunIsTrap ==
  /\ fsm = "OVERRUN" /\ capture_enable => fsm' = "OVERRUN"
  /\ fsm = "OVERRUN" => fsm' \in {"OVERRUN", "AWAIT_START"}
  /\ fsm = "OVERRUN" =>
       ~write_event /\ ~write_packet /\ ~write_header /\ ~new_packet
  /\ fsm' = "OVERRUN" => ~data_commit'

\* C28: a byte received when at most one word of the ring buffer is free
\* (committed plus pending words at mem_size_words - 1 or above) takes the
\* capture FSM to OVERRUN; in OVERRUN the FSM stays while capture_enable is
\* set, leaves only to AWAIT_START, and nothing is written or committed.
C28_OverrunWhenBufferFills ==
  [][phase = 1 =>
       /\ fsm = "CAPTURE_PACKET" /\ byte_received
            /\ fifo_word_count + fifo_words_pending >= mem_size_words - 1 =>
              fsm' = "OVERRUN"
       /\ OverrunIsTrap]_vars

\* The same with the test the capture FSM makes: exactly one free word.
OverrunAsCoded ==
  [][phase = 1 =>
       /\ fsm = "CAPTURE_PACKET" /\ byte_received
            /\ fifo_word_count + fifo_words_pending = mem_size_words - 1 =>
              fsm' = "OVERRUN"
       /\ OverrunIsTrap]_vars

\* ----------------------------------------------------- idle specification
\* A capture that is enabled from the first cycle, with a reader that takes
\* every word, and a byte source that is idle or sends bytes of IdleBytes.
\* IdleCapture(t) is the state of such a capture after t idle cycles in
\* AWAIT_PACKET: the start event has been written, committed and read, and
\* only current_time moves.  The specification starts at construction and,
\* to reach the timestamp wrap, in IdleCapture(2^16 - IdleLead).
IdleBytes == {171}

IdleCapture(t) ==
  /\ InitTriggerInputs
  /\ fsm = "AWAIT_PACKET"
  /\ current_time = t /\ packet_size = 0 /\ packet_time = 0
  /\ packet_byte_index = 0
  /\ stage_mismatch = FALSE /\ stage_match_count = 0
  /\ seq_expected_stage = 0
  /\ pending_trigger_event = FALSE
  /\ pending_stage_compare = FALSE /\ pending_stage_byte = 0
  /\ pattern_read_data = 0 /\ mask_read_data = 0
  /\ trigger_fire_strobe = FALSE /\ trigger_fire_count = 0
  /\ trigger_toggle_out = FALSE
  /\ mem_size_words = Pow2(AddrBits)
  /\ mem = [a \in {0} |-> 256 * 255 + CAPTURE_START_BASE]
  /\ wfsm = "START"
  /\ write_byte_addr = 4 /\ header_word_addr = 0 /\ read_word_addr = 2
  /\ fifo_word_count = 0 /\ fifo_words_pending = 2
  /\ stream_valid = FALSE /\ stream_last = FALSE /\ stream_payload = 0
  /\ InitMemories
  /\ InitHandler
  /\ InitTriggerConfig
  /\ phase = 0 /\ ticks = t + 1 /\ logging = TRUE
  /\ pkt = <<>> /\ emitted = <<EventRecord(CAPTURE_START_BASE, 0)>>
  /\ gfifo = <<>> /\ out = <<256 * 255 + CAPTURE_START_BASE, 0>>
  /\ pending_addrs = {}
  /\ ref_stage = 0 /\ ref_fired = FALSE /\ end_stage = 0
  /\ reset_age = 0 /\ fired_records = 0 /\ rx_log = <<>>
  /\ rx_setup = NoSetup
  /\ cli = NoCommand

InitIdle ==
  \/ /\ InitTriggerInputs
     /\ InitAnalyzer(Pow2(AddrBits))
     /\ InitMemories
     /\ InitHandler
     /\ InitTriggerConfig
     /\ InitGhost(TRUE)
  \/ IdleCapture(Pow2(16) - IdleLead)

IdleEnv ==
  {[WithRx(QuietInputs, r) EXCEPT !.capture_enable = TRUE, !.stream_ready = TRUE] :
     r \in RxSignals(IdleBytes)}

IdleSyncEdge == SyncEdge(TRUE)

IdleUsbEdge ==
  /\ \/ ticks < MaxIdleTicks
     \/ ticks > Pow2(16) - IdleLead /\ ticks < Pow2(16) + MaxIdleTicks
  /\ \E e \in IdleEnv : UsbEdge(e)

NextIdle == IdleSyncEdge \/ IdleUsbEdge

SpecIdle == InitIdle /\ [][NextIdle]_vars

\* The late start lies on the run from construction: as long as the byte
\* source has been idle, the state is IdleCapture(current_time).
IdleCaptureOnRun ==
  /\ phase = 0 /\ ticks >= 4 /\ fsm = "AWAIT_PACKET" /\ ~rx_active
  /\ emitted = <<EventRecord(CAPTURE_START_BASE, 0)>> /\ pkt = <<>>
  => IdleCapture(current_time)

only_events_so_far == \A i \in 1..Len(emitted) : emitted[i].kind = "event"

\* Idle cycles since the capture started (it starts in the first cycle).
idle_cycles == ticks - 1

\* C29: while the capture is enabled and idle, a timestamp counter at
\* 0xFFFF with nothing else to record writes one rollover event (code 0,
\* timestamp 0xFFFF) and continues from 0; a first packet after an idle
\* period of 0x10000 + k cycles finds the start event and exactly one
\* rollover event recorded and gets timestamp k, and a first packet after
\* fewer than 0xFFFF idle cycles finds the start event alone.
C29_RolloverEvent ==
  [][phase = 1 /\ fsm = "AWAIT_PACKET" /\ capture_enable
       /\ ~pending_trigger_event =>
       /\ ~rx_active /\ ~event_strobe /\ current_time = 65535 =>
            write_event /\ event_code = EVENT_NONE /\ current_time' = 0
       /\ rx_active /\ only_events_so_far /\ idle_cycles >= Pow2(16) =>
            /\ emitted = <<EventRecord(CAPTURE_START_BASE, 0),
                           EventRecord(EVENT_NONE, 65535)>>
            /\ fsm' = "CAPTURE_PACKET"
            /\ packet_time' = idle_cycles - Pow2(16)
       /\ rx_active /\ only_events_so_far /\ idle_cycles < 65535 =>
            /\ emitted = <<EventRecord(CAPTURE_START_BASE, 0)>>
            /\ packet_time' = idle_cycles]_vars

\* After 0x10002 idle cycles a one-byte packet has been recorded with
\* timestamp 2, behind the start event and one rollover event.
C29_Witness ==
  emitted = <<EventRecord(CAPTURE_START_BASE, 0),
              EventRecord(EVENT_NONE, 65535),
              PacketRecord(<<171>>, 2)>>

\* ------------------------------------------------------ timestamp totals
RECURSIVE TimeSum(_)
TimeSum(records) ==
  IF records = <<>> THEN 0
  ELSE records[1].time + TimeSum(Tail(records))

\* C30: every record's timestamp is the number of cycles since the record
\* before it, so when a record is produced the timestamps of the session,
\* its own included, add up to the cycles elapsed since the capture started
\* (counted from the first cycle after the start event, which has
\* timestamp 0).  In the idle specification the capture starts in cycle 0.
C30_TimestampsAddUp ==
  phase = 0 /\ fsm = "AWAIT_PACKET" /\ (write_event \/ new_packet)
    => TimeSum(emitted) + current_time = ticks - 1

\* ------------------------------------------- trigger state across sessions
triggerConfig == <<enable, armed, output_enable, stage_count,
                   stage_offsets, stage_lengths, patterns_flat, masks_flat>>

\* C31: the fire count and the trigger output change only at a firing (the
\* end of a packet in CAPTURE_PACKET), the control bits and stage tables
\* only while the vendor handler serves a request, the pattern and mask
\* memories only through their write ports: stopping and restarting the
\* capture changes none of them.
C31_RestartKeepsTriggerState ==
  [][phase = 1 =>
       /\ fsm # "CAPTURE_PACKET" =>
            UNCHANGED <<trigger_fire_count, trigger_toggle_out>>
       /\ hstate = "IDLE" => UNCHANGED triggerConfig
       /\ ~pwrite.pattern_en /\ ~pwrite.mask_en =>
            UNCHANGED <<pattern_memory, mask_memory>>]_vars

\* A capture is being restarted after a session in which the trigger fired.
C31_Witness ==
  /\ phase = 1 /\ fsm = "AWAIT_START" /\ capture_enable /\ ~rx_active
  /\ trigger_fire_count = 1 /\ trigger_toggle_out
  /\ enable /\ armed

\* ------------------------------------------------------ starting a capture
capture_starts == fsm = "AWAIT_START" /\ fsm' = "AWAIT_PACKET"

\* C32: a session begins only from AWAIT_START, in a cycle with
\* capture_enable set and rx_active low; at the end of that cycle the ring
\* buffer holds exactly the capture-start event (FF, 0x04 | speed, timestamp
\* 0) at word 0, with the read pointer at 0, the write address behind the
\* event, and nothing presented on the stream.
C32_StartEventOpensSession ==
  [][phase = 1 =>
       /\ fsm # "AWAIT_START" /\ fsm' = "AWAIT_PACKET" =>
            fsm \in {"AWAIT_PACKET", "CAPTURE_PACKET"}
       /\ capture_starts =>
            /\ capture_enable /\ ~rx_active
            /\ write_event /\ event_code = CAPTURE_START_BASE + speed_selection
            /\ current_time' = 0
            /\ read_word_addr' = 0 /\ write_byte_addr' = EVENT_SIZE_BYTES
            /\ fifo_word_count' = EVENT_SIZE_WORDS
            /\ ~stream_valid'
            /\ FifoView' = <<Word(255, CAPTURE_START_BASE + speed_selection), 0>>
            /\ logging =>
                 emitted = <<EventRecord(CAPTURE_START_BASE + speed_selection, 0)>>]_vars

\* The same for a start that follows at least one full cycle in AWAIT_START,
\* which has zeroed the timestamp counter.
StartEventAfterRest ==
  [][phase = 1 /\ current_time = 0 =>
       /\ capture_starts =>
            /\ capture_enable /\ ~rx_active
            /\ write_event /\ event_code = CAPTURE_START_BASE + speed_selection
            /\ current_time' = 0
            /\ read_word_addr' = 0 /\ write_byte_addr' = EVENT_SIZE_BYTES
            /\ fifo_word_count' = EVENT_SIZE_WORDS
            /\ ~stream_valid'
            /\ FifoView' = <<Word(255, CAPTURE_START_BASE + speed_selection), 0>>
            /\ logging =>
                 emitted = <<EventRecord(CAPTURE_START_BASE + speed_selection, 0)>>]_vars

\* ------------------------------------------------ AWAIT_PACKET priorities
packet_offered ==
  rx_active /\ session_valid /\ speed_selection # SPEED_AUTO

\* The one action AWAIT_PACKET takes in a cycle, by the documented
\* priority: stop, trigger-fired event, new packet, external event,
\* rollover event.
AwaitPacketAction ==
  IF ~capture_enable
  THEN /\ write_event /\ event_code = CAPTURE_STOP_NORMAL /\ ~new_packet
       /\ fsm' = "AWAIT_START"
  ELSE IF pending_trigger_event
  THEN /\ write_event /\ event_code = TRIGGER_FIRED /\ ~new_packet
       /\ fsm' = "AWAIT_PACKET" /\ ~pending_trigger_event'
  ELSE IF packet_offered
  THEN /\ new_packet /\ ~write_event
       /\ fsm' = "CAPTURE_PACKET" /\ packet_time' = current_time
  ELSE IF event_strobe
  THEN /\ write_event /\ event_code = event_code_in /\ ~new_packet
       /\ fsm' = "AWAIT_PACKET"
  ELSE IF current_time = 65535
  THEN /\ write_event /\ event_code = EVENT_NONE /\ ~new_packet
       /\ fsm' = "AWAIT_PACKET"
  ELSE ~write_event /\ ~new_packet /\ fsm' = "AWAIT_PACKET"

AwaitPacketPriority ==
  [][phase = 1 /\ fsm = "AWAIT_PACKET" => AwaitPacketAction]_vars

\* C33: AWAIT_PACKET takes one action per cycle by the priority above, and
\* a packet whose start is deferred by a trigger-fired event (rx_active
\* rose in the cycle of the event) is started in the following cycle with
\* no byte lost: a byte the source delivers in that following cycle, the
\* first cycle after the rise, is written to the packet.
C33_DeferredPacketKeepsBytes ==
  [][phase = 1 /\ fsm = "AWAIT_PACKET" =>
       /\ AwaitPacketAction
       /\ capture_enable /\ pending_trigger_event /\ packet_offered
            /\ capture_enable' /\ packet_offered' =>
              /\ fsm' \in {"AWAIT_PACKET", "CAPTURE_PACKET"}
              /\ fsm' = "AWAIT_PACKET" => new_packet'
              /\ byte_received' => write_packet']_vars

\* -------------------------------------------------------- status outputs
CaptureStates == {"AWAIT_START", "AWAIT_PACKET", "CAPTURE_PACKET", "OVERRUN"}

StatusOutputsFollowState ==
  /\ fsm \in CaptureStates
  /\ stopped <=> fsm = "AWAIT_START"
  /\ capturing <=> fsm = "CAPTURE_PACKET"
  /\ overrun <=> fsm = "OVERRUN"
  /\ idle <=> fsm \in {"AWAIT_START", "AWAIT_PACKET"}

\* C34: in every cycle stopped, capturing, overrun and idle name the state
\* of the capture FSM, which is one of the four capture states and never
\* BABBLE, and starting is asserted exactly in the cycle in which the FSM
\* moves from AWAIT_START to AWAIT_PACKET.
C34_StatusOutputs ==
  [][phase = 1 =>
       /\ StatusOutputsFollowState
       /\ starting <=> (fsm = "AWAIT_START" /\ fsm' = "AWAIT_PACKET")]_vars

\* The same with starting as it is driven: stopped and capture_enable.
StatusOutputsAsDriven ==
  [][phase = 1 =>
       /\ StatusOutputsFollowState
       /\ starting <=> (fsm = "AWAIT_START" /\ capture_enable)
       /\ fsm = "AWAIT_START" /\ fsm' = "AWAIT_PACKET" => starting]_vars

\* ------------------------------------------------- ring buffer occupancy
\* Word addresses of committed words the reader has not taken.
UnreadAddrs ==
  {(read_word_addr + i) % mem_size_words : i \in 0..(fifo_word_count - 1)}

\* C35: the ring buffer never overwrites unread data: the words of the
\* record being written (a packet's header slot and payload, or an event)
\* are never words the reader has still to take, and the committed count
\* plus the words being committed stays within mem_size_words - 1, so the
\* count never wraps.
C35_BufferNeverOverflows ==
  /\ pending_addrs \cap UnreadAddrs = {}
  /\ data_commit =>
       fifo_word_count - fifo_words_popped + fifo_words_pending
         <= mem_size_words - 1

\* ------------------------------------------- full-sequence specification
\* A program that uses every stage: stage s matches a packet whose first
\* byte is 0xAA.  One packet is sent every fourth usb cycle and carries
\* 0xAA or 0x01 in each of its bytes, so the sequence position climbs to the
\* last stage, fires there, and stalls wherever a packet does not match.
MaxSeqTicks == 36

FullProgram ==
  Program(TRIGGER_MAX_STAGES,
          [i \in 1..TRIGGER_MAX_STAGES |-> Stage(0, 1)],
          [i \in 1..TRIGGER_MAX_STAGES |-> <<170>>],
          [i \in 1..TRIGGER_MAX_STAGES |-> <<255>>])

InitSeq ==
  /\ InitTriggerInputs
  /\ InitAnalyzer(Pow2(AddrBits))
  /\ InitHandler
  /\ InitProgrammed(FullProgram, TRUE)
  /\ InitGhost(FALSE)

SeqEnv ==
  {[WithRx(QuietInputs, r) EXCEPT !.capture_enable = TRUE, !.stream_ready = TRUE] :
     r \in {[rx_active |-> ticks % 4 \in {0, 1}, rx_valid |-> ticks % 4 \in {0, 1},
             rx_data |-> IF ticks % 4 \in {0, 1} THEN d ELSE 0] : d \in {170, 1}}}

SeqSyncEdge == SyncEdge(TRUE)

SeqUsbEdge == ticks < MaxSeqTicks /\ \E e \in SeqEnv : UsbEdge(e)

NextSeq == SeqSyncEdge \/ SeqUsbEdge

SpecSeq == InitSeq /\ [][NextSeq]_vars

\* C36: the sequence position stays strictly below the number of stages the
\* hardware has, so the stage index taken from its low three bits is the
\* sequence position itself and the stage tables are indexed in range.
C36_StageIndexInRange ==
  /\ seq_expected_stage < TRIGGER_MAX_STAGES
  /\ active_stage_index = seq_expected_stage
  /\ active_stage_index \in DOMAIN stage_offsets
  /\ active_stage_index \in DOMAIN stage_lengths

\* The last stage of the full program is the one expected next.
C36_Witness ==
  /\ seq_expected_stage = TRIGGER_MAX_STAGES - 1
  /\ active_stage_valid /\ fsm = "CAPTURE_PACKET"

\* ------------------------------------------------ superseded transfers
\* A setup packet received while the handler is in a request state.
setup_supersedes ==
  hif.setup_received /\ listed_request /\ hstate \in ClaimingStates

\* C37: what the handler applies at a status stage (arm, disarm, control
\* commit) is what the most recently received setup packet asked for: a
\* setup packet received in a request state of an earlier transfer is
\* dispatched as a new request and the earlier request has no effect.
C37_StatusStageServesLatestSetup ==
  [][phase = 1 =>
       /\ setup_supersedes => hstate' = Dispatch(setup.request)
       /\ arm_status_stage => setup.request = ARM_TRIGGER
       /\ disarm_status_stage => setup.request = DISARM_TRIGGER
       /\ control_commit => setup.request = SET_TRIGGER_CONTROL]_vars

\* What the handler does with a setup packet in a request state: nothing.
SetupIgnoredInRequestState ==
  [][phase = 1 /\ setup_supersedes /\ ~hif.status_requested =>
       hstate' = hstate]_vars

\* ---------------------------------------------- split-payload specification
\* A SET_TRIGGER_STAGE transfer whose 68 payload bytes arrive in two OUT
\* data packets.  The first packet ends after one of SplitPoints bytes (64 is
\* the largest packet the control endpoint takes, so a packet always ends
\* there); rx_ready_for_response follows the last byte of each packet, and
\* the status stage follows the response to the last packet.
MaxSplitTicks == 76

SplitPoints == {4, 64}

ByteSignals ==
  {[setup |-> setup,
    hif |-> [NoStrobe EXCEPT !.rx_valid = TRUE, !.rx_next = TRUE,
                             !.rx_payload = b]] :
     b \in IF next_rx_count = 0 THEN RoundSeeds
           ELSE {PayloadByte(next_rx_log[1], next_rx_count)}}

ResponseSignals ==
  {[setup |-> setup, hif |-> [NoStrobe EXCEPT !.rx_ready_for_response = TRUE]]}

SplitHostSignals ==
  IF next_hstate = "IDLE"
  THEN {[setup |-> [vendor |-> TRUE, request |-> SET_TRIGGER_STAGE, value |-> v],
         hif |-> [NoStrobe EXCEPT !.setup_received = TRUE]] : v \in RoundIndexes}
  ELSE IF hif.rx_ready_for_response /\ next_rx_count >= TRIGGER_STAGE_PAYLOAD_LEN
  THEN {[setup |-> setup, hif |-> [NoStrobe EXCEPT !.status_requested = TRUE]]}
  ELSE IF rx_byte /\ next_rx_count >= TRIGGER_STAGE_PAYLOAD_LEN
  THEN ResponseSignals
  ELSE IF rx_byte /\ next_rx_count = 64
  THEN ResponseSignals
  ELSE IF rx_byte /\ next_rx_count \in SplitPoints
  THEN ResponseSignals \cup ByteSignals
  ELSE ByteSignals

SplitEnv ==
  {[QuietInputs EXCEPT !.stream_ready = TRUE, !.setup = h.setup, !.hif = h.hif] :
     h \in SplitHostSignals}

SplitSyncEdge == SyncEdge(TRUE)

SplitUsbEdge == ticks < MaxSplitTicks /\ \E e \in SplitEnv : UsbEdge(e)

NextSplit == SplitSyncEdge \/ SplitUsbEdge

SpecSplit == InitStage /\ [][NextSplit]_vars

stage_transfer == setup.vendor /\ hstate = "SET_TRIGGER_STAGE" /\ valid_stage_index

\* C38: a SET_TRIGGER_STAGE transfer to a valid stage that delivers all 68
\* payload bytes is never STALLed, however the bytes are split across OUT
\* data packets: no data packet and no status stage is answered with STALL,
\* and the status stage after the 68th byte is answered with a ZLP.
C38_SplitPayloadNeverStalled ==
  stage_transfer =>
    /\ ~handshake_stall
    /\ hif.status_requested /\ Len(rx_log) = TRIGGER_STAGE_PAYLOAD_LEN => send_zlp

\* The response to the last packet and the status stage, taken alone.
CompletePayloadAccepted ==
  stage_transfer /\ rx_count >= TRIGGER_STAGE_PAYLOAD_LEN =>
    /\ ~handshake_stall
    /\ hif.status_requested => send_zlp

\* ------------------------------------------- capture apart from the trigger
\* The capture FSM step and the records begun in a cycle, as functions of
\* the capture inputs and capture registers alone.
capture_fsm_untriggered ==
  CASE fsm = "AWAIT_START" ->
         IF capture_enable /\ ~rx_active THEN "AWAIT_PACKET" ELSE "AWAIT_START"
    [] fsm = "AWAIT_PACKET" ->
         IF ~capture_enable THEN "AWAIT_START"
         ELSE IF packet_offered THEN "CAPTURE_PACKET"
         ELSE "AWAIT_PACKET"
    [] fsm = "CAPTURE_PACKET" ->
         IF ~rx_active THEN "AWAIT_PACKET"
         ELSE IF byte_received /\ buffer_filling THEN "OVERRUN"
         ELSE "CAPTURE_PACKET"
    [] fsm = "OVERRUN" ->
         IF ~capture_enable THEN "AWAIT_START" ELSE "OVERRUN"
    [] OTHER -> fsm

CaptureStepUntriggered ==
  /\ fsm' = capture_fsm_untriggered
  /\ new_packet <=> (fsm = "AWAIT_PACKET" /\ capture_enable /\ packet_offered)
  /\ fsm = "AWAIT_PACKET" /\ capture_enable /\ ~packet_offered /\ event_strobe =>
        write_event /\ event_code = event_code_in

\* C39: the trigger subsystem does not affect capture: whatever the trigger
\* configuration and the trigger requests in progress, the capture FSM
\* moves as the capture inputs say, and the packet and external-event
\* records begun for the byte stream are the same.
C39_TriggerLeavesCaptureAlone ==
  [][phase = 1 => CaptureStepUntriggered]_vars

\* The same, in every cycle in which no trigger-fired event is owed.
CaptureAloneUnlessEventOwed ==
  [][phase = 1 /\ ~(fsm = "AWAIT_PACKET" /\ pending_trigger_event) =>
       CaptureStepUntriggered]_vars

\* ------------------------------------------------------ host command line
\* The trigger-config command of cli.py.  An argument is the text given on
\* the command line, a sequence of characters; None is an option that was
\* not given.  The texts used contain no white space and no underscores.
None == <<"None">>

DigitsLower == <<"0", "1", "2", "3", "4", "5", "6", "7", "8", "9",
                 "a", "b", "c", "d", "e", "f">>
DigitsUpper == <<"0", "1", "2", "3", "4", "5", "6", "7", "8", "9",
                 "A", "B", "C", "D", "E", "F">>

IsDigit(c, base) == \E i \in 1..base : DigitsLower[i] = c \/ DigitsUpper[i] = c

DigitValue(c) == (CHOOSE i \in 1..16 : DigitsLower[i] = c \/ DigitsUpper[i] = c) - 1

RECURSIVE PositionalValue(_, _)
PositionalValue(ds, base) ==
  IF ds = <<>> THEN 0
  ELSE PositionalValue(SubSeq(ds, 1, Len(ds) - 1), base) * base
         + DigitValue(ds[Len(ds)])

Parsed(v) == [ok |-> TRUE, value |-> v]
ValueError == [ok |-> FALSE, value |-> 0]

\* int(value, 0): an optional sign, then 0x / 0o / 0b and digits of that
\* base, or decimal digits without a leading zero (zero itself excepted).
int_auto(value) ==
  LET signed == Len(value) >= 1 /\ value[1] \in {"+", "-"}
      body == IF signed THEN Tail(value) ELSE value
      prefixed == Len(body) >= 2 /\ body[1] = "0"
                    /\ body[2] \in {"x", "X", "o", "O", "b", "B"}
      base == IF ~prefixed THEN 10
              ELSE IF body[2] \in {"x", "X"} THEN 16
              ELSE IF body[2] \in {"o", "O"} THEN 8 ELSE 2
      digits == IF prefixed THEN SubSeq(body, 3, Len(body)) ELSE body
      wellformed ==
        /\ Len(digits) >= 1
        /\ \A i \in 1..Len(digits) : IsDigit(digits[i], base)
        /\ ~prefixed /\ digits[1] = "0" => \A i \in 1..Len(digits) : digits[i] = "0"
      magnitude == PositionalValue(digits, base)
  IN IF ~wellformed THEN ValueError
     ELSE Parsed(IF signed /\ value[1] = "-" THEN 0 - magnitude ELSE magnitude)

\* bytes.fromhex(value), refusing the empty result.
hex_bytes(value) ==
  IF Len(value) % 2 # 0 \/ \E i \in 1..Len(value) : ~IsDigit(value[i], 16)
  THEN ValueError
  ELSE IF Len(value) = 0 THEN ValueError
  ELSE Parsed([k \in 1..(Len(value) \div 2) |->
                 16 * DigitValue(value[2 * k - 1]) + DigitValue(value[2 * k])])

\* The try block: every argument parsed, the mask defaulting to all 0xFF
\* and the length to the pattern's byte count.
parse_trigger_args(args) ==
  LET stage_index_p == int_auto(args.stage_index)
      offset_p == int_auto(args.offset)
      stage_count_p == int_auto(args.stage_count)
      pattern_p == hex_bytes(args.pattern_hex)
      mask_p == IF args.mask_hex # None THEN hex_bytes(args.mask_hex)
                ELSE Parsed([k \in 1..Len(pattern_p.value) |-> 255])
      length_p == IF args.length = None THEN Parsed(Len(pattern_p.value))
                  ELSE int_auto(args.length)
  IN IF /\ stage_index_p.ok /\ offset_p.ok /\ stage_count_p.ok
        /\ pattern_p.ok /\ mask_p.ok
        /\ Len(mask_p.value) = Len(pattern_p.value)
        /\ length_p.ok
     THEN [ok |-> TRUE, stage_index |-> stage_index_p.value,
           offset |-> offset_p.value, stage_count |-> stage_count_p.value,
           pattern |-> pattern_p.value, mask |-> mask_p.value,
           length |-> length_p.value]
     ELSE [ok |-> FALSE]

\* The range tests made before the device is opened.
range_checks_fail(p) ==
  \/ p.stage_index < 0 \/ p.stage_index > 255
  \/ p.offset < 0 \/ p.offset > 65535
  \/ p.stage_count < 0 \/ p.stage_count > 255
  \/ p.length < 0 \/ p.length > 255

\* Capability tests that let any stage count through.
caps_checks_fail_count_unchecked(p, caps) ==
  \/ p.stage_index >= caps.max_stages
  \/ p.length > Len(p.pattern)
  \/ p.length > caps.max_pattern_len

\* The tests made against the capabilities the device reports.
caps_checks_fail(p, caps) ==
  \/ p.stage_index >= caps.max_stages
  \/ p.length > Len(p.pattern)
  \/ p.length > caps.max_pattern_len
  \/ p.stage_count > caps.max_stages

Call(name, arguments) == [name |-> name, arguments |-> arguments]

\* _cmd_trigger_config: its exit code and the device calls it makes, in order.
cmd_trigger_config(args, caps) ==
  LET p == parse_trigger_args(args)
      opened == <<Call("open_first", <<>>), Call("trigger_caps", <<>>)>>
      configured ==
        <<Call("set_trigger_control",
               [enable |-> ~args.no_enable, stage_count |-> p.stage_count,
                output_enable |-> ~args.no_output]),
          Call("set_trigger_stage",
               [stage_index |-> p.stage_index, offset |-> p.offset,
                pattern |-> p.pattern, mask |-> p.mask, length |-> p.length])>>
      armed_calls == IF args.arm THEN <<Call("arm_trigger", <<>>)>> ELSE <<>>
  IN IF ~p.ok THEN [exit |-> 2, calls |-> <<>>]
     ELSE IF range_checks_fail(p) THEN [exit |-> 2, calls |-> <<>>]
     ELSE IF caps_checks_fail(p, caps) THEN [exit |-> 2, calls |-> opened]
     ELSE [exit |-> 0,
           calls |-> opened \o configured \o armed_calls
                       \o <<Call("trigger_status", <<>>)>>]

\* What GET_TRIGGER_CAPS of this gateware reports.
DeviceCaps ==
  [max_stages |-> TRIGGER_MAX_STAGES, max_pattern_len |-> TRIGGER_MAX_PATTERN_BYTES,
   stage_payload_len |-> TRIGGER_STAGE_PAYLOAD_LEN]

\* Command lines tried.  IntTexts gives each integer text with the value it
\* denotes, HexTexts each hex text with the number of bytes it denotes;
\* valid is FALSE for a text that denotes none (the empty hex text is no
\* pattern or mask: the command wants at least one byte).
IntTexts ==
  {[text |-> <<"0">>, valid |-> TRUE, value |-> 0],
   [text |-> <<"1">>, valid |-> TRUE, value |-> 1],
   [text |-> <<"7">>, valid |-> TRUE, value |-> 7],
   [text |-> <<"8">>, valid |-> TRUE, value |-> 8],
   [text |-> <<"9">>, valid |-> TRUE, value |-> 9],
   [text |-> <<"3", "3">>, valid |-> TRUE, value |-> 33],
   [text |-> <<"0", "x", "2", "0">>, valid |-> TRUE, value |-> 32],
   [text |-> <<"2", "5", "6">>, valid |-> TRUE, value |-> 256],
   [text |-> <<"0", "x", "F", "F", "F", "F">>, valid |-> TRUE, value |-> 65535],
   [text |-> <<"6", "5", "5", "3", "6">>, valid |-> TRUE, value |-> 65536],
   [text |-> <<"-", "1">>, valid |-> TRUE, value |-> -1],
   [text |-> <<"0", "1">>, valid |-> FALSE, value |-> 0],
   [text |-> <<"x">>, valid |-> FALSE, value |-> 0],
   [text |-> <<>>, valid |-> FALSE, value |-> 0]}

HexTexts ==
  {[text |-> <<"a", "a">>, valid |-> TRUE, value |-> 1],
   [text |-> <<"A", "A", "b", "b">>, valid |-> TRUE, value |-> 2],
   [text |-> [i \in 1..66 |-> "5"], valid |-> TRUE, value |-> 33],
   [text |-> <<"f", "f">>, valid |-> TRUE, value |-> 1],
   [text |-> <<"f", "f", "0", "F">>, valid |-> TRUE, value |-> 2],
   [text |-> <<"a">>, valid |-> FALSE, value |-> 0],
   [text |-> <<"g", "0">>, valid |-> FALSE, value |-> 0],
   [text |-> <<>>, valid |-> FALSE, value |-> 0]}

TextsOf(table, values) ==
  {e.text : e \in {x \in table : x.valid /\ x.value \in values}}

StageIndexTexts == TextsOf(IntTexts, {0, 7, 8, 256, -1}) \cup {<<"x">>}
OffsetTexts == TextsOf(IntTexts, {0, 65535, 65536})
StageCountTexts == TextsOf(IntTexts, {1, 8, 9, 256}) \cup {<<"0", "1">>}
LengthTexts == TextsOf(IntTexts, {0, 1, 32, 33, 256, -1}) \cup {<<>>, None}
PatternTexts ==
  {<<"a", "a">>, <<"A", "A", "b", "b">>, [i \in 1..66 |-> "5"],
   <<"a">>, <<"g", "0">>, <<>>}
MaskTexts == {<<"f", "f">>, <<"f", "f", "0", "F">>, <<"a">>, None}

Meant(table, text) == CHOOSE e \in table : e.text = text

CommandLines ==
  [stage_index : StageIndexTexts, offset : OffsetTexts,
   stage_count : StageCountTexts, pattern_hex : PatternTexts,
   mask_hex : MaskTexts, length : LengthTexts,
   no_enable : BOOLEAN, no_output : {FALSE}, arm : BOOLEAN]

InitCli ==
  /\ InitInputs
  /\ InitAnalyzer(Pow2(AddrBits))
  /\ InitMemories
  /\ InitHandler
  /\ InitTriggerConfig
  /\ phase = 0 /\ ticks = 0 /\ logging = FALSE
  /\ pkt = <<>> /\ emitted = <<>> /\ gfifo = <<>> /\ out = <<>>
  /\ pending_addrs = {}
  /\ ref_stage = 0 /\ ref_fired = FALSE /\ end_stage = 0
  /\ reset_age = 0 /\ fired_records = 0 /\ rx_log = <<>>
  /\ rx_setup = NoSetup
  /\ \E a \in CommandLines : cli = [pc |-> "invoked", args |-> a]

CmdTriggerConfig ==
  /\ cli.pc = "invoked"
  /\ LET r == cmd_trigger_config(cli.args, DeviceCaps)
     IN cli' = [pc |-> "returned", args |-> cli.args,
                exit |-> r.exit, calls |-> r.calls]
  /\ UNCHANGED <<inputVars, stream_ready, usbVars, syncVars, handlerVars, ghostVars>>

NextCli == CmdTriggerConfig

SpecCli == InitCli /\ [][NextCli]_vars

\* The validation the command is documented to make, on what the texts of
\* the command line denote.
PatternMeant(args) == Meant(HexTexts, args.pattern_hex)

MaskMeant(args) ==
  IF args.mask_hex = None THEN PatternMeant(args)
  ELSE Meant(HexTexts, args.mask_hex)

LengthMeant(args) ==
  IF args.length = None THEN PatternMeant(args)
  ELSE Meant(IntTexts, args.length)

ArgumentsValid(args) ==
  LET stage_index_m == Meant(IntTexts, args.stage_index)
      offset_m == Meant(IntTexts, args.offset)
      stage_count_m == Meant(IntTexts, args.stage_count)
  IN /\ stage_index_m.valid /\ offset_m.valid /\ stage_count_m.valid
     /\ PatternMeant(args).valid /\ MaskMeant(args).valid
     /\ LengthMeant(args).valid
     /\ stage_index_m.value \in 0..255
     /\ offset_m.value \in 0..65535
     /\ stage_count_m.value \in 0..255
     /\ LengthMeant(args).value \in 0..255
     /\ MaskMeant(args).value = PatternMeant(args).value
     /\ stage_index_m.value < TRIGGER_MAX_STAGES
     /\ LengthMeant(args).value <= PatternMeant(args).value
     /\ LengthMeant(args).value <= TRIGGER_MAX_PATTERN_BYTES
     /\ stage_count_m.value <= TRIGGER_MAX_STAGES

StateChanging == {"set_trigger_control", "set_trigger_stage", "arm_trigger"}

StateChangingCalls ==
  SelectSeq([k \in 1..Len(cli.calls) |-> cli.calls[k].name],
            LAMBDA n : n \in StateChanging)

\* C40: trigger-config returns exit code 2 without calling
\* set_trigger_control, set_trigger_stage or arm_trigger when an argument
\* does not parse or fails validation; otherwise it calls
\* set_trigger_control, then set_trigger_stage, then arm_trigger only when
\* --arm is given, and returns 0.
C40_NoRequestOnInvalidArguments ==
  cli.pc = "returned" =>
    IF ArgumentsValid(cli.args)
    THEN /\ cli.exit = 0
         /\ StateChangingCalls =
              <<"set_trigger_control", "set_trigger_stage">>
                \o (IF cli.args.arm THEN <<"arm_trigger">> ELSE <<>>)
    ELSE cli.exit = 2 /\ StateChangingCalls = <<>>

\* A stage count above the device's stages was refused after the device
\* had been opened and asked for its capabilities.
C40_Witness ==
  /\ cli.pc = "returned"
  /\ Meant(IntTexts, cli.args.stage_count).value = 9
  /\ cli.exit = 2
  /\ Len(cli.calls) = 2

\* A valid command line with --arm has configured and armed the trigger.
ValidCommandRan ==
  /\ cli.pc = "returned" /\ cli.exit = 0 /\ cli.args.arm
  /\ Len(cli.calls) = 6
====
